---- MODULE Spec2Model ----
(***************************************************************************)
(* Model of ironic_staging_drivers/ansible/deploy.py: the AnsibleDeploy    *)
(* interface (deploy, continue_deploy, reboot_to_instance,                 *)
(* reboot_and_finish_deploy, tear_down, get_clean_steps,                   *)
(* execute_clean_step, prepare_cleaning, tear_down_cleaning) and the       *)
(* helpers it uses (address lookup, clean-steps loading, partitioning,     *)
(* root-device hints, the call of ansible-playbook).                       *)
(* Every collaborator call appends an event to `trace`; an exception that  *)
(* a collaborator raises is recorded as a "raise" event naming it.         *)
(***************************************************************************)
EXTENDS Integers, Sequences, FiniteSets, TLC

\* ------------------------------------------------------------- bounds
\* largest value of [ansible]post_deploy_get_power_state_retries explored
MaxRetries == 2
\* largest number of addresses the DHCP provider reports
MaxAddrs == 2
\* largest number of steps in a clean-steps file
MaxSteps == 2
\* largest partition size (MiB) in an instance_info
MaxMb == 2

VARIABLES
    use_ramdisk_callback,                   \* CONF.ansible.use_ramdisk_callback
    post_deploy_get_power_state_retries,    \* CONF.ansible.post_deploy_get_power_state_retries
    driver_info,                            \* node.driver_info
    driver_internal_info,                   \* node.driver_internal_info (in memory)
    saved_internal_info,                    \* driver_internal_info as last persisted by node.save()
    provision_state,                        \* node.provision_state
    op,                                     \* the interface method being executed
    pc,                                     \* position inside it
    ret,                                    \* its return value
    exc,                                    \* the exception in flight / propagated
    trace,                                  \* collaborator calls made by the current method
    node_address,                           \* local ip_addr / node_address
    attempt_number,                         \* retrying's attempt counter
    power_state_read,                       \* last value _wait_until_powered_off obtained
    clean_steps_file,                       \* what yaml.safe_load gives for the clean-steps file
    loads,                                  \* the calls of _get_clean_steps made so far, latest first
    parsed                                  \* the latest call of a parsing helper: its argument and outcome

vars == <<use_ramdisk_callback, post_deploy_get_power_state_retries, driver_info,
          driver_internal_info, saved_internal_info, provision_state, op, pc, ret,
          exc, trace, node_address, attempt_number, power_state_read,
          clean_steps_file, loads, parsed>>

registry == <<clean_steps_file, loads, parsed>>
conf == <<use_ramdisk_callback, post_deploy_get_power_state_retries, driver_info,
          registry>>
node == <<driver_internal_info, saved_internal_info>>
poll == <<attempt_number, power_state_read>>

\* ------------------------------------------------------------ values
NodeUuid == "node-uuid"
NodeExtra == "node-extra"
NoAddress == <<>>

\* addresses and callback URLs are character sequences
Ips == {<<"a">>, <<"b">>}
Urls == { <<"h", ":", "/", "/", "a", ":", "9">>,      \* h://a:9
          <<"h", ":", "/", "/", "b", "/", "v">>,      \* h://b/v
          <<"a", ":", "9">> }                         \* a:9  (no scheme, no netloc)
AddrLists == UNION { [1..n -> Ips] : n \in 0..MaxAddrs }

DEFAULT_PLAYBOOKS ==
    [deploy |-> "deploy.yaml", shutdown |-> "shutdown.yaml", clean |-> "clean.yaml"]

\* Python values that are either a bool or a string
Bool(b) == [type |-> "bool", val |-> b]
Str(s) == [type |-> "str", val |-> s]

\* dict helpers
Get(d, k, default) == IF k \in DOMAIN d THEN d[k] ELSE default
Put(d, k, v) == [x \in DOMAIN d \cup {k} |-> IF x = k THEN v ELSE d[x]]
Pop(d, k) == [x \in DOMAIN d \ {k} |-> d[x]]
EmptyDict == [x \in {} |-> 0]

\* the node records explored: <<driver_info, driver_internal_info>>
NodeConfigs ==
    { <<EmptyDict, EmptyDict>>,
      <<EmptyDict, [is_whole_disk_image |-> TRUE]>>,
      <<[deploy_forces_oob_reboot |-> Str("True")], EmptyDict>>,
      <<[deploy_forces_oob_reboot |-> Bool(TRUE), ansible_deploy_username |-> "root"],
        [is_whole_disk_image |-> TRUE]>>,
      <<[deploy_forces_oob_reboot |-> Str("no"), ansible_shutdown_playbook |-> ""],
        EmptyDict>>,
      <<EmptyDict, [ansible_cleaning_ip |-> <<"b">>]>> }

\* ironic.common.states
REBOOT == "rebooting"
POWER_OFF == "power off"
POWER_ON == "power on"
DEPLOYWAIT == "wait call-back"
DEPLOYDONE == "deploy complete"
DEPLOYING == "deploying"
DEPLOYFAIL == "deploy failed"
ACTIVE == "active"
CLEANING == "cleaning"
CLEANWAIT == "clean wait"
CLEANFAIL == "clean failed"
AVAILABLE == "available"
DELETING == "deleting"
DELETED == "deleted"
ERROR == "error"
None == "None"

Ev(c, a) == [call |-> c, arg |-> a]
Raised(where) == Ev("raise", where)

\* ------------------------------------------------- address resolution
\* str.find: index of the first c in s, 0 when there is none
RECURSIVE FindFrom(_, _, _)
FindFrom(s, cs, i) ==
    IF i > Len(s) THEN 0
    ELSE IF s[i] \in cs THEN i
    ELSE FindFrom(s, cs, i + 1)

SchemeChars == {"a", "b", "h", "t", "p", "s", "v",
                "0", "1", "2", "3", "4", "5", "6", "7", "8", "9", "+", "-", "."}
DigitChars == {"0", "1", "2", "3", "4", "5", "6", "7", "8", "9"}

\* urlsplit's scheme step: the text left once a scheme has been taken off
AfterScheme(url) ==
    LET i == FindFrom(url, {":"}, 1)
        rest == SubSeq(url, i + 1, Len(url))
    IN  IF /\ i > 1
           /\ \A k \in 1..(i - 1) : url[k] \in SchemeChars
           /\ (rest = <<>> \/ \E k \in 1..Len(rest) : rest[k] \notin DigitChars)
        THEN rest
        ELSE url

\* urlparse(url).netloc: what follows "//" up to the first of "/", "?", "#"
Netloc(url) ==
    LET u == AfterScheme(url)
    IN  IF Len(u) >= 2 /\ u[1] = "/" /\ u[2] = "/"
        THEN LET d == FindFrom(u, {"/", "?", "#"}, 3)
             IN  SubSeq(u, 3, IF d = 0 THEN Len(u) ELSE d - 1)
        ELSE <<>>

\* s.split(':')[0]
SplitFirst(s) ==
    LET i == FindFrom(s, {":"}, 1)
    IN  IF i = 0 THEN s ELSE SubSeq(s, 1, i - 1)

\* (mutant) the port is left on the address
heartbeat_keeps_port(dii) ==
    [exc |-> "none", val |-> Netloc(Get(dii, "agent_url", <<>>))]

\* _get_node_ip_heartbeat: never raises; '' when no agent_url is recorded
_get_node_ip_heartbeat(dii) ==
    LET callback_url == Get(dii, "agent_url", <<>>)
    IN  [exc |-> "none", val |-> SplitFirst(Netloc(callback_url))]

\* (mutant) the first of several addresses is picked
dhcp_picks_first(ip_addrs) ==
    IF Len(ip_addrs) = 0
    THEN [exc |-> "FailedToGetIPAddressOnPort", val |-> NoAddress]
    ELSE [exc |-> "none", val |-> ip_addrs[1]]

\* _get_node_ip_dhcp applied to what api.get_ip_addresses(task) returned
_get_node_ip_dhcp(ip_addrs) ==
    IF Len(ip_addrs) = 0
    THEN [exc |-> "FailedToGetIPAddressOnPort", val |-> NoAddress]
    ELSE IF Len(ip_addrs) > 1
    THEN [exc |-> "InstanceDeployFailure", val |-> NoAddress]
    ELSE [exc |-> "none", val |-> ip_addrs[1]]

\* _get_node_ip: the mode is the process-wide option
_get_node_ip(callback, dii, ip_addrs) ==
    IF callback THEN _get_node_ip_heartbeat(dii) ELSE _get_node_ip_dhcp(ip_addrs)

\* ---------------------------------------------------- driver options
PlaybookKey(action) ==
    CASE action = "deploy" -> "ansible_deploy_playbook"
      [] action = "shutdown" -> "ansible_shutdown_playbook"
      [] action = "clean" -> "ansible_clean_playbook"

_parse_ansible_driver_info(d_info, action) ==
    LET user == Get(d_info, "ansible_deploy_username", "ansible")
        key == Get(d_info, "ansible_deploy_key_file", "None")
        playbook == Get(d_info, PlaybookKey(action), DEFAULT_PLAYBOOKS[action])
    IN  IF playbook = ""
        THEN [exc |-> "PlaybookNotFound", playbook |-> playbook, user |-> user, key |-> key]
        ELSE [exc |-> "none", playbook |-> playbook, user |-> user, key |-> key]

\* (mutant) the option is compared without lowering its case
bool_from_string_exact(subject) ==
    IF subject.type = "bool" THEN subject.val
    ELSE subject.val \in {"1", "t", "true", "on", "y", "yes"}

\* oslo_utils.strutils.bool_from_string (not strict, default False)
Lowered(s) ==
    CASE s = "True" -> "true"
      [] s = "YES" -> "yes"
      [] OTHER -> s
TRUE_STRINGS == {"1", "t", "true", "on", "y", "yes"}
bool_from_string(subject) ==
    IF subject.type = "bool" THEN subject.val
    ELSE Lowered(subject.val) \in TRUE_STRINGS

\* reboot_and_finish_deploy: oob_power_off
oob_power_off(d_info) ==
    bool_from_string(Get(d_info, "deploy_forces_oob_reboot", Bool(FALSE)))

\* ------------------------------------------------- tool invocation
\* (mutant) the address is filed as the name and the name as the address
_prepare_extra_vars_swapped(host_list, variables) ==
    LET nodes_var == [i \in 1..Len(host_list) |->
                        [name |-> host_list[i][2], ip |-> host_list[i][1],
                         user |-> host_list[i][3], extra |-> host_list[i][4]]]
    IN  variables @@ [nodes |-> nodes_var]

_prepare_extra_vars(host_list, variables) ==
    LET nodes_var == [i \in 1..Len(host_list) |->
                        [name |-> host_list[i][1], ip |-> host_list[i][2],
                         user |-> host_list[i][3], extra |-> host_list[i][4]]]
    IN  variables @@ [nodes |-> nodes_var]

\* (mutant) the wait tag is skipped in synchronous mode instead
notags_swapped(callback) == IF callback THEN <<>> ELSE <<"wait">>

\* _ansible_deploy: notags
notags(callback) == IF callback THEN <<"wait">> ELSE <<>>

\* the call _run_playbook(name, extra_vars, key, tags, notags)
_run_playbook(name, extra_vars, key, tags, skip) ==
    Ev("_run_playbook",
       [name |-> name, extra_vars |-> extra_vars, key |-> key,
        tags |-> tags, notags |-> skip])

\* _prepare_variables plus the partitioning step of _ansible_deploy
DeployVariables(dii) ==
    IF Get(dii, "is_whole_disk_image", FALSE)
    THEN [image |-> "image"]
    ELSE [image |-> "image", partition_info |-> "partition_info"]

\* ---------------------------------------------------------- polling
\* (mutant) the retry count is taken as the number of attempts
attempts_without_first(retries) == retries

\* reboot_and_finish_deploy: attempts
attempts(retries) == retries + 1
\* retrying: stop_max_attempt_number
should_stop(attempt, max_attempts) == attempt >= max_attempts
\* (mutant) any power state read ends the polling
retry_on_no_result(state) == FALSE

\* retry_on_result=lambda state: state != states.POWER_OFF
retry_on_result(state) == state # POWER_OFF
\* what task.driver.power.get_power_state(task) can give: a state, or an exception
PowerReads == {POWER_OFF, POWER_ON, "error"}
\* retrying's should_reject: an exception is retried, a result by retry_on_result
should_reject(read) == IF read = "error" THEN TRUE ELSE retry_on_result(read)

\* how utils.execute ends: it returns, raises ProcessExecutionError (the tool
\* exits with an error), or raises another error (OSError: the tool cannot be
\* started)
ToolOutcomes == {"ok", "ProcessExecutionError", "OSError"}

\* _run_playbook: except processutils.ProcessExecutionError is re-raised as
\* InstanceDeployFailure; any other error passes through as it is
_run_playbook_raises(outcome) ==
    IF outcome = "ProcessExecutionError" THEN "InstanceDeployFailure" ELSE outcome

\* ------------------------------------------------------ control flow
Go(p) == pc' = p /\ UNCHANGED <<ret, exc>>
Return(v) == pc' = "returned" /\ ret' = v /\ exc' = "none"
Raise(e) == pc' = "raised" /\ exc' = e /\ UNCHANGED ret

\* no parsing helper has been called yet
NotParsed == [call |-> "none", arg |-> "none", exc |-> "none", result |-> "none"]

\* ------------------------------------------------------ partitioning
\* the instance configurations explored: the disk label that
\* deploy_utils.get_disk_label gives (None when not configured) and the
\* instance_info keys that _parse_partitioning_info reads
InstanceInfos ==
    [disk_label : {None, "gpt", "msdos"},
     root_mb : 1..MaxMb,
     ephemeral_mb : 0..MaxMb,
     ephemeral_format : {"ext4"},
     preserve_ephemeral : BOOLEAN,
     swap_mb : 0..MaxMb,
     configdrive : {None, "", "payload"}]

\* Python truth of a string or None
Truthy(v) == v \notin {None, ""}

\* (mutant) the root partition is flagged for boot under any label
root_partition_bootable(label, root_mb) ==
    [name |-> "root", size |-> root_mb, unit |-> "MiB", flags |-> [boot |-> "yes"]]

\* _parse_partitioning_info: the root partition, flagged for boot under msdos
root_partition(label, root_mb) ==
    IF label = "msdos"
    THEN [name |-> "root", size |-> root_mb, unit |-> "MiB", flags |-> [boot |-> "yes"]]
    ELSE [name |-> "root", size |-> root_mb, unit |-> "MiB"]

\* _parse_partitioning_info(node)
_parse_partitioning_info(info) ==
    LET label == IF Truthy(info.disk_label) THEN info.disk_label ELSE "msdos"
        bios == IF label = "gpt"
                THEN <<[name |-> "bios", size |-> 1, unit |-> "MiB",
                        flags |-> [bios_grub |-> "yes"]]>>
                ELSE <<>>
        ephemeral == IF info.ephemeral_mb # 0
                     THEN <<[name |-> "ephemeral", size |-> info.ephemeral_mb,
                             unit |-> "MiB", format |-> info.ephemeral_format]>>
                     ELSE <<>>
        swap == IF info.swap_mb # 0
                THEN <<[name |-> "swap", size |-> info.swap_mb, unit |-> "MiB",
                        format |-> "linux-swap"]>>
                ELSE <<>>
        configdrive == IF Truthy(info.configdrive)
                       THEN <<[name |-> "configdrive", size |-> 64, unit |-> "MiB",
                               format |-> "fat32"]>>
                       ELSE <<>>
        partitions == bios \o ephemeral \o swap \o configdrive
                      \o <<root_partition(label, info.root_mb)>>
        i_info == (IF info.ephemeral_mb # 0
                   THEN [ephemeral_format |-> info.ephemeral_format,
                         preserve_ephemeral |->
                             IF info.preserve_ephemeral THEN "yes" ELSE "no"]
                   ELSE EmptyDict)
                  @@ [label |-> label, partitions |-> partitions]
    IN [partition_info |-> i_info]

\* -------------------------------------------------- root device hints
\* a Python int next to Bool and Str
Number(n) == [type |-> "int", val |-> n]

\* hint values as irlib_utils.parse_root_device_hints gives them: strings are
\* character sequences that open with an operator, other values are not strings
EqTen == <<"=", "=", " ", "1", "0">>                          \* '== 10'
EqWord == <<"=", "=", " ", "x">>                              \* '== x'
GeTen == <<">", "=", " ", "1", "0">>                          \* '>= 10'
SEqPlain == <<"s", "=", "=", " ", "a", "b">>                  \* 's== ab'
SEqQuoted == <<"s", "=", "=", " ", "a", "%", "2", "0", "b">>  \* 's== a%20b'
SNeWord == <<"s", "!", "=", " ", "a">>                        \* 's!= a'

\* what node.properties['root_device'] comes to: missing or empty, rejected by
\* the library (ValueError), or the parsed hints
RootDevices ==
    { [kind |-> k, parsed |-> EmptyDict] : k \in {"none", "invalid"} } \cup
    { [kind |-> "hints", parsed |-> size @@ model @@ rotational] :
        size \in {EmptyDict} \cup {[size |-> Str(v)] : v \in {EqTen, GeTen}},
        model \in {EmptyDict} \cup
                  {[model |-> Str(v)] : v \in {SEqPlain, SEqQuoted, SNeWord, EqWord}},
        rotational \in {EmptyDict, [rotational |-> Bool(TRUE)]} }

\* str.startswith
StartsWith(s, prefix) ==
    Len(s) >= Len(prefix) /\ SubSeq(s, 1, Len(prefix)) = prefix

\* int(text): the number a string of decimal digits writes, ValueError otherwise
DigitValue(c) ==
    CASE c = "0" -> 0 [] c = "1" -> 1 [] c = "2" -> 2 [] c = "3" -> 3 [] c = "4" -> 4
      [] c = "5" -> 5 [] c = "6" -> 6 [] c = "7" -> 7 [] c = "8" -> 8 [] c = "9" -> 9
RECURSIVE DigitsValue(_)
DigitsValue(text) ==
    IF text = <<>> THEN 0
    ELSE 10 * DigitsValue(SubSeq(text, 1, Len(text) - 1)) + DigitValue(text[Len(text)])
int(text) ==
    IF text # <<>> /\ \A i \in 1..Len(text) : text[i] \in DigitChars
    THEN [exc |-> "none", val |-> DigitsValue(text)]
    ELSE [exc |-> "ValueError", val |-> 0]

\* the %XX escapes decoded here
Escapes == { <<"2", "0">>, <<"2", "5">> }
Unescaped(pair) == IF pair = <<"2", "0">> THEN " " ELSE "%"

\* urlparse.unquote: every %XX becomes the character it stands for
RECURSIVE unquote(_)
unquote(text) ==
    IF text = <<>> THEN <<>>
    ELSE IF text[1] = "%" /\ Len(text) >= 3 /\ SubSeq(text, 2, 3) \in Escapes
    THEN <<Unescaped(SubSeq(text, 2, 3))>> \o unquote(SubSeq(text, 4, Len(text)))
    ELSE <<text[1]>> \o unquote(SubSeq(text, 2, Len(text)))

\* _parse_root_device_hints: the hints this driver cannot translate
Advanced(parsed_hints) ==
    {hint \in DOMAIN parsed_hints :
        /\ parsed_hints[hint].type = "str"
        /\ ~StartsWith(parsed_hints[hint].val, <<"=", "=", " ">>)
        /\ ~StartsWith(parsed_hints[hint].val, <<"s", "=", "=", " ">>)}

\* _parse_root_device_hints: what one hint becomes in root_device_hints
Translated(value) ==
    IF value.type # "str" THEN value
    ELSE IF StartsWith(value.val, <<"=", "=", " ">>)
    THEN Number(int(SubSeq(value.val, 4, Len(value.val))).val)
    ELSE Str(unquote(SubSeq(value.val, 5, Len(value.val))))

\* _parse_root_device_hints: the hints on which int() raises
NotIntegers(parsed_hints) ==
    {hint \in DOMAIN parsed_hints :
        /\ parsed_hints[hint].type = "str"
        /\ StartsWith(parsed_hints[hint].val, <<"=", "=", " ">>)
        /\ int(SubSeq(parsed_hints[hint].val, 4, Len(parsed_hints[hint].val))).exc
               # "none"}

\* what a call of _parse_root_device_hints ends with
Hints(exception, hints, mapping) ==
    [exc |-> exception, hints |-> hints, root_device_hints |-> mapping]

\* _parse_root_device_hints(node)
_parse_root_device_hints(root_device) ==
    LET parsed_hints == root_device.parsed
        advanced == Advanced(parsed_hints)
    IN  IF root_device.kind = "none" THEN Hints("none", {}, EmptyDict)
        ELSE IF root_device.kind = "invalid"
        THEN Hints("InvalidParameterValue", {}, EmptyDict)
        ELSE IF NotIntegers(parsed_hints) # {} THEN Hints("ValueError", {}, EmptyDict)
        ELSE IF advanced # {} THEN Hints("InvalidParameterValue", advanced, EmptyDict)
        ELSE Hints("none", {},
                   [hint \in DOMAIN parsed_hints |-> Translated(parsed_hints[hint])])

\* ------------------------------------------------------- clean steps
\* a priority that may be None
Some(v) == [some |-> TRUE, val |-> v]
Nothing == [some |-> FALSE, val |-> 0]

\* the step declarations a clean-steps file is made of here: a step is a dict
\* with some of the keys name, interface, priority, args; an argument is a
\* dict with some of the keys required, value
StepDecls ==
    { [name |-> "erase_devices", interface |-> "deploy", priority |-> 10,
       args |-> [tags |-> [required |-> TRUE, value |-> "zap"]]],
      [name |-> "erase_devices", interface |-> "raid", priority |-> 20],
      [name |-> "zap", interface |-> "raid"],
      [name |-> "zap", interface |-> "deploy",
       args |-> [tags |-> [required |-> FALSE]]],
      [name |-> "zap", interface |-> "deploy",
       args |-> [tags |-> [required |-> TRUE]]],
      [name |-> "erase_devices", args |-> [tags |-> [required |-> TRUE]]],
      [name |-> "", interface |-> "raid", priority |-> 10],
      [args |-> [tags |-> [required |-> TRUE]]] }

\* the files explored: unreadable, or a list of step declarations
StepsFiles ==
    {[readable |-> FALSE, steps |-> <<>>]} \cup
    {[readable |-> TRUE, steps |-> s] :
        s \in UNION { [1..n -> StepDecls] : n \in 0..MaxSteps }}

\* the order in which args.items() gives the arguments of a step
ArgNames == <<"tags">>

\* _validate_clean_steps: '%s.value' % arg_name
ValueField(arg_name) == arg_name \o ".value"

\* _validate_clean_steps: the inner loop over a named step's arguments
MissingValues(name, args) ==
    LET Lacks(arg_name) ==
            /\ arg_name \in DOMAIN args
            /\ Get(args[arg_name], "required", FALSE)
            /\ "value" \notin DOMAIN args[arg_name]
        entry(i) == IF Lacks(ArgNames[i])
                    THEN <<[name |-> name, field |-> ValueField(ArgNames[i])]>>
                    ELSE <<>>
        RECURSIVE upto(_)
        upto(i) == IF i = 0 THEN <<>> ELSE upto(i - 1) \o entry(i)
    IN upto(Len(ArgNames))

\* (mutant) a step without a name is reported and its other fields are
\* checked as well
MissingFieldsOfAll(step) ==
    LET name == Get(step, "name", None)
        shown == IF name \in {None, ""} THEN "undefined" ELSE name
    IN (IF name \in {None, ""}
        THEN <<[name |-> "undefined", field |-> "name"]>> ELSE <<>>)
       \o (IF "interface" \notin DOMAIN step
           THEN <<[name |-> shown, field |-> "interface"]>> ELSE <<>>)
       \o MissingValues(shown, Get(step, "args", EmptyDict))

\* _validate_clean_steps: what one pass of the loop appends to `missing`
MissingFields(step) ==
    LET name == Get(step, "name", None) IN
    IF name \in {None, ""}
    THEN <<[name |-> "undefined", field |-> "name"]>>
    ELSE (IF "interface" \notin DOMAIN step
          THEN <<[name |-> name, field |-> "interface"]>> ELSE <<>>)
         \o MissingValues(name, Get(step, "args", EmptyDict))

\* the two errors _validate_clean_steps raises
Malformed(missing) ==
    [exc |-> "NodeCleaningFailure", msg |-> "Malformed clean_steps file",
     missing |-> missing]
NotUnique ==
    [exc |-> "NodeCleaningFailure", msg |-> "Cleaning steps do not have unique names.",
     missing |-> <<>>]
Valid == [exc |-> "none", msg |-> "", missing |-> <<>>]

\* (mutant) a name may be shared by steps of different interfaces
duplicate_names_of_interface(steps) ==
    Cardinality({<<steps[i]["name"], steps[i]["interface"]>> : i \in 1..Len(steps)})
        # Len(steps)

\* _validate_clean_steps: len(set(s['name'] for s in steps)) != len(steps)
duplicate_names(steps) ==
    Cardinality({steps[i]["name"] : i \in 1..Len(steps)}) # Len(steps)

\* _validate_clean_steps(steps, node_uuid)
_validate_clean_steps(steps) ==
    LET RECURSIVE upto(_)
        upto(i) == IF i = 0 THEN <<>> ELSE upto(i - 1) \o MissingFields(steps[i])
        missing == upto(Len(steps))
    IN IF missing # <<>> THEN Malformed(missing)
       ELSE IF duplicate_names(steps) THEN NotUnique
       ELSE Valid

\* (mutant) zero counts as no override
priority_or(new_priority, params) ==
    IF new_priority.some /\ new_priority.val # 0
    THEN new_priority.val ELSE Get(params, "priority", 0)

\* _get_clean_steps: new_priority if it is not None, else the declared one, else 0
priority(new_priority, params) ==
    IF new_priority.some THEN new_priority.val ELSE Get(params, "priority", 0)

\* _get_clean_steps: the step built from one validated declaration; 'value' is
\* popped out of each argument's info
CleanStep(params, override) ==
    LET name == params["name"]
        argsinfo == Get(params, "args", EmptyDict)
    IN [interface |-> params["interface"],
        step |-> name,
        priority |-> priority(Get(override, name, Nothing), params),
        abortable |-> FALSE,
        argsinfo |-> [a \in DOMAIN argsinfo |-> Pop(argsinfo[a], "value")],
        args |-> [a \in DOMAIN argsinfo |-> Get(argsinfo[a], "value", None)]]

\* _get_clean_steps: the loop that keeps the steps of the wanted interface
BuildSteps(internal_steps, interface, override) ==
    LET RECURSIVE upto(_)
        upto(i) ==
            IF i = 0 THEN <<>>
            ELSE IF interface # None /\ interface # internal_steps[i]["interface"]
            THEN upto(i - 1)
            ELSE Append(upto(i - 1), CleanStep(internal_steps[i], override))
    IN upto(Len(internal_steps))

\* the file cannot be opened or parsed
LoadFailed ==
    [exc |-> "NodeCleaningFailure", msg |-> "Failed to load clean steps",
     missing |-> <<>>, steps |-> <<>>]

\* what a call of _get_clean_steps ends with
Outcome(verdict, steps) ==
    [exc |-> verdict.exc, msg |-> verdict.msg, missing |-> verdict.missing,
     steps |-> steps]

\* (mutant) only the steps of the wanted interface are validated
_get_clean_steps_of_interface(file, interface, override_priorities) ==
    LET wanted == SelectSeq(file.steps,
                      LAMBDA s : interface = None \/ Get(s, "interface", None) = interface)
        verdict == _validate_clean_steps(wanted)
    IN IF ~file.readable THEN LoadFailed
       ELSE IF verdict.exc # "none" THEN Outcome(verdict, <<>>)
       ELSE Outcome(verdict, BuildSteps(wanted, interface, override_priorities))

\* _get_clean_steps(node, interface=None, override_priorities=None); a mapping
\* of None is the empty one
_get_clean_steps(file, interface, override_priorities) ==
    LET verdict == _validate_clean_steps(file.steps) IN
    IF ~file.readable THEN LoadFailed
    ELSE IF verdict.exc # "none" THEN Outcome(verdict, <<>>)
    ELSE Outcome(verdict, BuildSteps(file.steps, interface, override_priorities))

Init ==
    /\ use_ramdisk_callback \in BOOLEAN
    /\ post_deploy_get_power_state_retries \in 0..MaxRetries
    /\ \E n \in NodeConfigs : driver_info = n[1] /\ driver_internal_info = n[2]
    /\ saved_internal_info = driver_internal_info
    /\ provision_state \in {AVAILABLE, CLEANING}
    /\ op = "none"
    /\ pc = "idle"
    /\ ret = "none"
    /\ exc = "none"
    /\ trace = <<>>
    /\ node_address = NoAddress
    /\ attempt_number = 0
    /\ power_state_read = "none"
    /\ clean_steps_file = [readable |-> TRUE, steps |-> <<>>]
    /\ loads = <<>>
    /\ parsed = NotParsed

\* --------------------------------------------------------- conductor
Begin(o, p) ==
    /\ op' = o
    /\ pc' = p
    /\ ret' = "none"
    /\ exc' = "none"
    /\ trace' = <<>>
    /\ node_address' = NoAddress
    /\ attempt_number' = 0
    /\ power_state_read' = "none"

\* the conductor calls deploy on a node it has put into DEPLOYING
CallDeploy ==
    /\ pc = "idle"
    /\ provision_state \in {AVAILABLE, DEPLOYFAIL, ACTIVE}
    /\ provision_state' = DEPLOYING
    /\ Begin("deploy", "deploy")
    /\ UNCHANGED <<conf, node>>

\* the ramdisk calls back: the heartbeat records its URL in the scratch space
Heartbeat ==
    /\ pc = "idle"
    /\ provision_state \in {DEPLOYWAIT, CLEANWAIT}
    /\ \E url \in Urls :
         /\ driver_internal_info' = Put(driver_internal_info, "agent_url", url)
         /\ saved_internal_info' = driver_internal_info'
    /\ UNCHANGED <<conf, provision_state, op, pc, ret, exc, trace, node_address, poll>>

\* continue_deploy is entered for a node waiting for its callback
CallContinueDeploy ==
    /\ pc = "idle"
    /\ provision_state = DEPLOYWAIT
    /\ Begin("continue_deploy", "continue_deploy")
    /\ UNCHANGED <<conf, node, provision_state>>

\* the method has returned or raised: the conductor records the outcome
Finish ==
    /\ pc \in {"returned", "raised"}
    /\ provision_state' =
         IF exc # "none"
         THEN (IF op \in {"deploy", "continue_deploy"} THEN DEPLOYFAIL
               ELSE IF op = "tear_down" THEN ERROR
               ELSE CLEANFAIL)
         ELSE IF ret = DEPLOYWAIT THEN DEPLOYWAIT
         ELSE IF ret = CLEANWAIT THEN CLEANWAIT
         ELSE IF ret = DELETED THEN AVAILABLE
         ELSE IF op = "tear_down_cleaning" THEN AVAILABLE
         ELSE provision_state
    /\ op' = "none"
    /\ pc' = "idle"
    /\ ret' = "none"
    /\ exc' = "none"
    /\ trace' = <<>>
    /\ node_address' = NoAddress
    /\ attempt_number' = 0
    /\ power_state_read' = "none"
    /\ UNCHANGED <<conf, node>>

\* ------------------------------------------------------------ deploy
\* deploy: node_power_action(REBOOT), then the async return
deploy ==
    /\ op = "deploy" /\ pc = "deploy"
    /\ \E ok \in BOOLEAN :
         IF ~ok
         THEN /\ trace' = trace \o <<Ev("node_power_action", REBOOT),
                                     Raised("node_power_action")>>
              /\ Raise("PowerStateFailure")
         ELSE /\ trace' = Append(trace, Ev("node_power_action", REBOOT))
              /\ IF use_ramdisk_callback THEN Return(DEPLOYWAIT) ELSE Go("deploy_get_ip")
    /\ UNCHANGED <<conf, node, provision_state, op, node_address, poll>>

\* deploy: ip_addr = _get_node_ip_dhcp(task), outside the try block
deploy_get_ip ==
    /\ op = "deploy" /\ pc = "deploy_get_ip"
    /\ \E ip_addrs \in AddrLists :
         LET r == _get_node_ip_dhcp(ip_addrs)
         IN  IF r.exc # "none"
             THEN /\ trace' = trace \o <<Ev("get_ip_addresses", ip_addrs),
                                         Raised("_get_node_ip_dhcp")>>
                  /\ Raise(r.exc)
                  /\ UNCHANGED node_address
             ELSE /\ trace' = Append(trace, Ev("get_ip_addresses", ip_addrs))
                  /\ node_address' = r.val
                  /\ Go("_ansible_deploy")
    /\ UNCHANGED <<conf, node, provision_state, op, poll>>

\* (mutant) continue_deploy drops the exception and goes on to the reboot
ansible_deploy_raises_dropped(e) ==
    IF op = "deploy"
    THEN pc' = "deploy_except" /\ exc' = e /\ UNCHANGED ret
    ELSE Go("reboot_to_instance")

\* what an exception out of _ansible_deploy does in its caller: deploy catches
\* it, continue_deploy lets it through
ansible_deploy_raises(e) ==
    IF op = "deploy"
    THEN pc' = "deploy_except" /\ exc' = e /\ UNCHANGED ret
    ELSE Raise(e)

\* _ansible_deploy up to the call of _run_playbook
_ansible_deploy ==
    /\ pc = "_ansible_deploy"
    /\ \E ok \in BOOLEAN :
         LET info == _parse_ansible_driver_info(driver_info, "deploy")
             node_list == <<<<NodeUuid, node_address, info.user, NodeExtra>>>>
             extra_vars == _prepare_extra_vars(node_list,
                                               DeployVariables(driver_internal_info))
         IN  IF ~ok
             THEN /\ trace' = trace \o <<Ev("_prepare_variables", None),
                                         Raised("_prepare_variables")>>
                  /\ ansible_deploy_raises("Exception")
             ELSE IF info.exc # "none"
             THEN /\ trace' = trace \o <<Ev("_prepare_variables", None),
                                         Raised("_parse_ansible_driver_info")>>
                  /\ ansible_deploy_raises(info.exc)
             ELSE /\ trace' = trace \o
                        <<Ev("_prepare_variables", None),
                          _run_playbook(info.playbook, extra_vars, info.key, <<>>,
                                        notags(use_ramdisk_callback))>>
                  /\ Go("_ansible_deploy_running")
    /\ UNCHANGED <<conf, node, provision_state, op, node_address, poll>>

\* the deploy playbook runs to its end
_ansible_deploy_running ==
    /\ pc = "_ansible_deploy_running"
    /\ \E outcome \in ToolOutcomes :
         IF outcome = "ok"
         THEN Go("reboot_to_instance") /\ UNCHANGED trace
         ELSE /\ trace' = Append(trace, Raised("_run_playbook"))
              /\ ansible_deploy_raises(_run_playbook_raises(outcome))
    /\ UNCHANGED <<conf, node, provision_state, op, node_address, poll>>

\* (mutant) the failed state is entered with log collection left on
set_failed_state_collecting == Ev("set_failed_state", [collect_logs |-> TRUE])

\* the event deploy's except clause passes to set_failed_state
set_failed_state == Ev("set_failed_state", [collect_logs |-> FALSE])

\* deploy: except Exception -> set_failed_state(task, error, collect_logs=False)
deploy_except ==
    /\ op = "deploy" /\ pc = "deploy_except"
    /\ trace' = Append(trace, set_failed_state)
    /\ provision_state' = DEPLOYFAIL
    /\ Return(None)
    /\ UNCHANGED <<conf, node, op, node_address, poll>>

\* -------------------------------------------------- continue_deploy
\* continue_deploy: upgrade_lock, process_event('resume'), heartbeat address
continue_deploy ==
    /\ op = "continue_deploy" /\ pc = "continue_deploy"
    /\ trace' = <<Ev("upgrade_lock", "deploy"), Ev("process_event", "resume")>>
    /\ provision_state' = DEPLOYING
    /\ node_address' = _get_node_ip_heartbeat(driver_internal_info).val
    /\ Go("_ansible_deploy")
    /\ UNCHANGED <<conf, node, op, poll>>

\* ----------------------------------------------- reboot_to_instance
\* reboot_to_instance: node_set_boot_device(task, 'disk', persistent=True)
reboot_to_instance ==
    /\ pc = "reboot_to_instance"
    /\ \E ok \in BOOLEAN :
         IF ok
         THEN /\ trace' = Append(trace, Ev("node_set_boot_device", "disk"))
              /\ Go("reboot_and_finish_deploy")
         ELSE /\ trace' = trace \o <<Ev("node_set_boot_device", "disk"),
                                     Raised("node_set_boot_device")>>
              /\ Raise("Exception")
    /\ UNCHANGED <<conf, node, provision_state, op, node_address, poll>>

\* reboot_and_finish_deploy: the branch on deploy_forces_oob_reboot
reboot_and_finish_deploy ==
    /\ pc = "reboot_and_finish_deploy"
    /\ IF oob_power_off(driver_info) THEN Go("oob_power_off") ELSE Go("soft_power_off")
    /\ UNCHANGED <<conf, node, provision_state, op, trace, node_address, poll>>

\* (mutant) a failure of the soft power-off is treated as fatal
soft_power_off_fatal == "reboot_except"

\* where an exception inside the inner try block continues
soft_power_off_failed == "soft_power_off_except"

\* the inner try block up to the call of _run_playbook (shutdown)
soft_power_off ==
    /\ pc = "soft_power_off"
    /\ \E ip_addrs \in AddrLists :
         LET r == _get_node_ip(use_ramdisk_callback, driver_internal_info, ip_addrs)
             lookup == IF use_ramdisk_callback THEN <<>>
                       ELSE <<Ev("get_ip_addresses", ip_addrs)>>
             info == _parse_ansible_driver_info(driver_info, "shutdown")
             node_list == <<<<NodeUuid, r.val, info.user, NodeExtra>>>>
             extra_vars == _prepare_extra_vars(node_list, EmptyDict)
         IN  IF r.exc # "none"
             THEN /\ trace' = trace \o lookup \o <<Raised("_get_node_ip")>>
                  /\ Go(soft_power_off_failed)
                  /\ UNCHANGED node_address
             ELSE IF info.exc # "none"
             THEN /\ trace' = trace \o lookup \o <<Raised("_parse_ansible_driver_info")>>
                  /\ node_address' = r.val
                  /\ Go(soft_power_off_failed)
             ELSE /\ trace' = trace \o lookup \o
                        <<_run_playbook(info.playbook, extra_vars, info.key, <<>>, <<>>)>>
                  /\ node_address' = r.val
                  /\ Go("shutdown_running")
    /\ UNCHANGED <<conf, node, provision_state, op, poll>>

\* the shutdown playbook runs to its end
shutdown_running ==
    /\ pc = "shutdown_running"
    /\ \E outcome \in ToolOutcomes :
         IF outcome = "ok"
         THEN Go("_wait_until_powered_off") /\ UNCHANGED trace
         ELSE /\ trace' = Append(trace, Raised("_run_playbook"))
              /\ Go(soft_power_off_failed)
    /\ UNCHANGED <<conf, node, provision_state, op, node_address, poll>>

\* one attempt of the retrying loop around get_power_state
_wait_until_powered_off ==
    /\ pc = "_wait_until_powered_off"
    /\ \E read \in PowerReads :
         /\ attempt_number' = attempt_number + 1
         /\ power_state_read' = read
         /\ IF ~should_reject(read)
            THEN /\ trace' = Append(trace, Ev("get_power_state", read))
                 /\ Go("remove_provisioning_network")
            ELSE IF should_stop(attempt_number + 1,
                                attempts(post_deploy_get_power_state_retries))
            THEN /\ trace' = trace \o <<Ev("get_power_state", read),
                                        Raised("_wait_until_powered_off")>>
                 /\ Go(soft_power_off_failed)
            ELSE /\ trace' = Append(trace, Ev("get_power_state", read))
                 /\ Go("retry_sleep")
    /\ UNCHANGED <<conf, node, provision_state, op, node_address>>

\* retrying sleeps wait_fixed before the next attempt
retry_sleep ==
    /\ pc = "retry_sleep"
    /\ trace' = Append(trace, Ev("sleep", "wait_fixed"))
    /\ Go("_wait_until_powered_off")
    /\ UNCHANGED <<conf, node, provision_state, op, node_address, poll>>

\* (mutant) an exception of the outer try block is swallowed
reboot_failure_ignored == "process_event_done"

\* where an exception inside the outer try block continues
reboot_failed == "reboot_except"

\* node_power_action(task, POWER_OFF), in the inner except clause or the else branch
force_power_off ==
    \E ok \in BOOLEAN :
        IF ok
        THEN /\ trace' = Append(trace, Ev("node_power_action", POWER_OFF))
             /\ Go("remove_provisioning_network")
        ELSE /\ trace' = trace \o <<Ev("node_power_action", POWER_OFF),
                                    Raised("node_power_action")>>
             /\ Go(reboot_failed)

\* the inner except clause: warn, then power off out-of-band
soft_power_off_except ==
    /\ pc = "soft_power_off_except"
    /\ force_power_off
    /\ UNCHANGED <<conf, node, provision_state, op, node_address, poll>>

\* the else branch: deploy_forces_oob_reboot is set
oob_power_off_forced ==
    /\ pc = "oob_power_off"
    /\ force_power_off
    /\ UNCHANGED <<conf, node, provision_state, op, node_address, poll>>

\* a collaborator call of the outer try block
network_step(call, arg, where, next) ==
    \E ok \in BOOLEAN :
        IF ok
        THEN trace' = Append(trace, Ev(call, arg)) /\ Go(next)
        ELSE trace' = trace \o <<Ev(call, arg), Raised(where)>> /\ Go(reboot_failed)

remove_provisioning_network ==
    /\ pc = "remove_provisioning_network"
    /\ network_step("remove_provisioning_network", None, "remove_provisioning_network",
                    "configure_tenant_networks")
    /\ UNCHANGED <<conf, node, provision_state, op, node_address, poll>>

configure_tenant_networks ==
    /\ pc = "configure_tenant_networks"
    /\ network_step("configure_tenant_networks", None, "configure_tenant_networks",
                    "power_on")
    /\ UNCHANGED <<conf, node, provision_state, op, node_address, poll>>

power_on ==
    /\ pc = "power_on"
    /\ network_step("node_power_action", POWER_ON, "node_power_action", "process_event_done")
    /\ UNCHANGED <<conf, node, provision_state, op, node_address, poll>>

\* the outer except clause: agent_base.log_and_raise_deployment_error
reboot_except ==
    /\ pc = "reboot_except"
    /\ trace' = Append(trace, Ev("log_and_raise_deployment_error", None))
    /\ provision_state' = DEPLOYFAIL
    /\ Raise("InstanceDeployFailure")
    /\ UNCHANGED <<conf, node, op, node_address, poll>>

\* task.process_event('done')
process_event_done ==
    /\ pc = "process_event_done"
    /\ trace' = Append(trace, Ev("process_event", "done"))
    /\ provision_state' = ACTIVE
    /\ Go("clean_up_ramdisk")
    /\ UNCHANGED <<conf, node, op, node_address, poll>>

\* reboot_to_instance: task.driver.boot.clean_up_ramdisk(task), then back in
\* the caller: deploy returns DEPLOYDONE, continue_deploy returns None
clean_up_ramdisk ==
    /\ pc = "clean_up_ramdisk"
    /\ \E ok \in BOOLEAN :
         IF ok
         THEN /\ trace' = Append(trace, Ev("clean_up_ramdisk", None))
              /\ Return(IF op = "deploy" THEN DEPLOYDONE ELSE None)
         ELSE /\ trace' = trace \o <<Ev("clean_up_ramdisk", None),
                                     Raised("clean_up_ramdisk")>>
              /\ Raise("Exception")
    /\ UNCHANGED <<conf, node, provision_state, op, node_address, poll>>

\* -------------------------------------------------- prepare_cleaning
\* the clean-step plans manager_utils.set_node_cleaning_steps can store
StepPlans == {<<>>, <<"erase_devices">>}

CallPrepareCleaning ==
    /\ pc = "idle"
    /\ provision_state \in {AVAILABLE, CLEANFAIL}
    /\ provision_state' = CLEANING
    /\ Begin("prepare_cleaning", "prepare_cleaning")
    /\ UNCHANGED <<conf, node>>

\* (mutant) an empty plan does not end prepare_cleaning
no_clean_steps_goes_on(dii) == FALSE

\* prepare_cleaning: not node.driver_internal_info['clean_steps']
no_clean_steps(dii) == dii["clean_steps"] = <<>>

\* prepare_cleaning: the callback-mode plan and its short cut
prepare_cleaning ==
    /\ op = "prepare_cleaning" /\ pc = "prepare_cleaning"
    /\ IF use_ramdisk_callback
       THEN \E steps \in StepPlans :
              /\ driver_internal_info' = Put(driver_internal_info, "clean_steps", steps)
              /\ saved_internal_info' = driver_internal_info'
              /\ trace' = Append(trace, Ev("set_node_cleaning_steps", Len(steps)))
              /\ IF no_clean_steps(driver_internal_info')
                 THEN Return(None) ELSE Go("add_cleaning_network")
       ELSE /\ Go("add_cleaning_network")
            /\ UNCHANGED <<node, trace>>
    /\ UNCHANGED <<conf, provision_state, op, node_address, poll>>

\* a collaborator call of prepare_cleaning; its exception leaves the method
cleaning_step(call, arg, e, next) ==
    \E ok \in BOOLEAN :
        IF ok
        THEN trace' = Append(trace, Ev(call, arg)) /\ next
        ELSE trace' = trace \o <<Ev(call, arg), Raised(call)>> /\ Raise(e)

add_cleaning_network ==
    /\ op = "prepare_cleaning" /\ pc = "add_cleaning_network"
    /\ cleaning_step("add_cleaning_network", None, "NodeCleaningFailure",
                     Go("prepare_ramdisk"))
    /\ UNCHANGED <<conf, node, provision_state, op, node_address, poll>>

prepare_ramdisk ==
    /\ op = "prepare_cleaning" /\ pc = "prepare_ramdisk"
    /\ cleaning_step("prepare_ramdisk", None, "Exception", Go("cleaning_reboot"))
    /\ UNCHANGED <<conf, node, provision_state, op, node_address, poll>>

\* (mutant) prepare_cleaning goes on to the lookup in callback mode as well
cleaning_never_async(use_callback) == FALSE

\* prepare_cleaning: if use_callback: return states.CLEANWAIT
cleaning_is_async(use_callback) == use_callback

\* node_power_action(REBOOT), then the async return
cleaning_reboot ==
    /\ op = "prepare_cleaning" /\ pc = "cleaning_reboot"
    /\ cleaning_step("node_power_action", REBOOT, "PowerStateFailure",
                     IF cleaning_is_async(use_ramdisk_callback) THEN Return(CLEANWAIT)
                     ELSE Go("cleaning_get_ip"))
    /\ UNCHANGED <<conf, node, provision_state, op, node_address, poll>>

\* ip_addr = _get_node_ip_dhcp(task)
cleaning_get_ip ==
    /\ op = "prepare_cleaning" /\ pc = "cleaning_get_ip"
    /\ \E ip_addrs \in AddrLists :
         LET r == _get_node_ip_dhcp(ip_addrs)
         IN  IF r.exc # "none"
             THEN /\ trace' = trace \o <<Ev("get_ip_addresses", ip_addrs),
                                         Raised("_get_node_ip_dhcp")>>
                  /\ Raise(r.exc)
                  /\ UNCHANGED node_address
             ELSE /\ trace' = Append(trace, Ev("get_ip_addresses", ip_addrs))
                  /\ node_address' = r.val
                  /\ Go("cleaning_save_ip")
    /\ UNCHANGED <<conf, node, provision_state, op, poll>>

\* (mutant) the address is put into the record but the record is not saved
cleaning_ip_not_saved ==
    /\ op = "prepare_cleaning" /\ pc = "cleaning_save_ip"
    /\ driver_internal_info' = Put(driver_internal_info, "ansible_cleaning_ip", node_address)
    /\ Go("cleaning_wait")
    /\ UNCHANGED <<conf, saved_internal_info, trace, provision_state, op, node_address, poll>>

\* driver_internal_info['ansible_cleaning_ip'] = ip_addr; node.save()
cleaning_save_ip ==
    /\ op = "prepare_cleaning" /\ pc = "cleaning_save_ip"
    /\ driver_internal_info' = Put(driver_internal_info, "ansible_cleaning_ip", node_address)
    /\ saved_internal_info' = driver_internal_info'
    /\ trace' = Append(trace, Ev("node.save", None))
    /\ Go("cleaning_wait")
    /\ UNCHANGED <<conf, provision_state, op, node_address, poll>>

\* _parse_ansible_driver_info(action='clean') and the call of _run_playbook
cleaning_wait ==
    /\ op = "prepare_cleaning" /\ pc = "cleaning_wait"
    /\ LET info == _parse_ansible_driver_info(driver_info, "clean")
           node_list == <<<<NodeUuid, node_address, info.user, NodeExtra>>>>
           extra_vars == _prepare_extra_vars(node_list, EmptyDict)
       IN  IF info.exc # "none"
           THEN /\ trace' = Append(trace, Raised("_parse_ansible_driver_info"))
                /\ Raise(info.exc)
           ELSE /\ trace' = Append(trace, _run_playbook(info.playbook, extra_vars,
                                                        info.key, <<"wait">>, <<>>))
                /\ Go("cleaning_wait_running")
    /\ UNCHANGED <<conf, node, provision_state, op, node_address, poll>>

\* the clean playbook's wait tag runs to its end
cleaning_wait_running ==
    /\ op = "prepare_cleaning" /\ pc = "cleaning_wait_running"
    /\ \E outcome \in ToolOutcomes :
         IF outcome = "ok"
         THEN Return(None) /\ UNCHANGED trace
         ELSE /\ trace' = Append(trace, Raised("_run_playbook"))
              /\ Raise(_run_playbook_raises(outcome))
    /\ UNCHANGED <<conf, node, provision_state, op, node_address, poll>>

\* ----------------------------------------------- execute_clean_step
\* the steps the conductor hands over: a name and the argument values
CleanSteps ==
    { [step |-> "erase_devices", args |-> [tags |-> <<"zap">>]],
      [step |-> "zap", args |-> EmptyDict] }

\* the conductor runs one step on a node that is being cleaned
CallExecuteCleanStep ==
    /\ pc = "idle"
    /\ provision_state \in {CLEANING, CLEANWAIT}
    /\ Begin("execute_clean_step", "execute_clean_step")
    /\ UNCHANGED <<conf, node, provision_state>>

\* (mutant) a recorded cleaning address is used in either mode
recorded_ip_in_any_mode(callback, dii) == "ansible_cleaning_ip" \in DOMAIN dii

\* execute_clean_step: not CONF.ansible.use_ramdisk_callback and
\* 'ansible_cleaning_ip' in node.driver_internal_info
uses_recorded_ip(callback, dii) == ~callback /\ "ansible_cleaning_ip" \in DOMAIN dii

\* execute_clean_step(task, step): the playbook and credentials, then the address
execute_clean_step ==
    /\ op = "execute_clean_step" /\ pc = "execute_clean_step"
    /\ \E step \in CleanSteps :
         LET info == _parse_ansible_driver_info(driver_info, "clean")
             called == Ev("execute_clean_step", step)
         IN  IF info.exc # "none"
             THEN /\ trace' = <<called, Raised("_parse_ansible_driver_info")>>
                  /\ Raise(info.exc)
                  /\ UNCHANGED node_address
             ELSE IF uses_recorded_ip(use_ramdisk_callback, driver_internal_info)
             THEN /\ trace' = <<called>>
                  /\ node_address' = driver_internal_info["ansible_cleaning_ip"]
                  /\ Go("execute_clean_step_run")
             ELSE \E ip_addrs \in (IF use_ramdisk_callback THEN {<<>>} ELSE AddrLists) :
                    LET r == _get_node_ip(use_ramdisk_callback, driver_internal_info,
                                          ip_addrs)
                        lookup == IF use_ramdisk_callback THEN <<>>
                                  ELSE <<Ev("get_ip_addresses", ip_addrs)>>
                    IN  IF r.exc # "none"
                        THEN /\ trace' = <<called>> \o lookup \o <<Raised("_get_node_ip")>>
                             /\ Raise(r.exc)
                             /\ UNCHANGED node_address
                        ELSE /\ trace' = <<called>> \o lookup
                             /\ node_address' = r.val
                             /\ Go("execute_clean_step_run")
    /\ UNCHANGED <<conf, node, provision_state, op, poll>>

\* _run_playbook(playbook, extra_vars, key, tags=step_tags)
execute_clean_step_run ==
    /\ op = "execute_clean_step" /\ pc = "execute_clean_step_run"
    /\ LET step == trace[1].arg
           info == _parse_ansible_driver_info(driver_info, "clean")
           node_list == <<<<NodeUuid, node_address, info.user, NodeExtra>>>>
           extra_vars == _prepare_extra_vars(node_list, EmptyDict)
           step_tags == Get(step.args, "tags", <<>>)
       IN  trace' = Append(trace, _run_playbook(info.playbook, extra_vars, info.key,
                                                step_tags, <<>>))
    /\ Go("execute_clean_step_running")
    /\ UNCHANGED <<conf, node, provision_state, op, node_address, poll>>

\* execute_clean_step: except exception.InstanceDeployFailure
caught_by_execute_clean_step(e) == e = "InstanceDeployFailure"

\* the clean playbook runs the step's tags to the end
execute_clean_step_running ==
    /\ op = "execute_clean_step" /\ pc = "execute_clean_step_running"
    /\ \E outcome \in ToolOutcomes :
         IF outcome = "ok"
         THEN Return(None) /\ UNCHANGED trace
         ELSE /\ trace' = Append(trace, Raised("_run_playbook"))
              /\ IF caught_by_execute_clean_step(_run_playbook_raises(outcome))
                 THEN /\ pc' = "cleaning_error_handler"
                      /\ exc' = _run_playbook_raises(outcome)
                      /\ UNCHANGED ret
                 ELSE Raise(_run_playbook_raises(outcome))
    /\ UNCHANGED <<conf, node, provision_state, op, node_address, poll>>

\* manager_utils.cleaning_error_handler(task, six.text_type(e))
cleaning_error_handler ==
    /\ op = "execute_clean_step" /\ pc = "cleaning_error_handler"
    /\ trace' = Append(trace, Ev("cleaning_error_handler", exc))
    /\ provision_state' = CLEANFAIL
    /\ Return(None)
    /\ UNCHANGED <<conf, node, op, node_address, poll>>

\* ----------------------------------------------- tear_down_cleaning
CallTearDownCleaning ==
    /\ pc = "idle"
    /\ provision_state \in {CLEANING, CLEANWAIT, CLEANFAIL}
    /\ Begin("tear_down_cleaning", "tear_down_cleaning")
    /\ UNCHANGED <<conf, node, provision_state>>

\* (mutant) pop without a default: a missing key is an error
pop_cleaning_ip_strict(dii) ==
    IF "ansible_cleaning_ip" \in DOMAIN dii
    THEN [exc |-> "none", dii |-> Pop(dii, "ansible_cleaning_ip")]
    ELSE [exc |-> "KeyError", dii |-> dii]

\* driver_internal_info.pop('ansible_cleaning_ip', None): with a default given
\* a missing key is not an error
pop_cleaning_ip(dii) == [exc |-> "none", dii |-> Pop(dii, "ansible_cleaning_ip")]

\* tear_down_cleaning: pop('ansible_cleaning_ip', None); node.save()
tear_down_cleaning ==
    /\ op = "tear_down_cleaning" /\ pc = "tear_down_cleaning"
    /\ LET popped == pop_cleaning_ip(driver_internal_info)
       IN  IF popped.exc # "none"
           THEN /\ trace' = <<Raised("pop")>>
                /\ Raise(popped.exc)
                /\ UNCHANGED node
           ELSE /\ driver_internal_info' = popped.dii
                /\ saved_internal_info' = driver_internal_info'
                /\ trace' = <<Ev("node.save", None)>>
                /\ Go("tear_down_cleaning_power_off")
    /\ UNCHANGED <<conf, provision_state, op, node_address, poll>>

\* node_power_action(task, states.POWER_OFF)
tear_down_cleaning_power_off ==
    /\ op = "tear_down_cleaning" /\ pc = "tear_down_cleaning_power_off"
    /\ cleaning_step("node_power_action", POWER_OFF, "PowerStateFailure",
                     Go("tear_down_cleaning_ramdisk"))
    /\ UNCHANGED <<conf, node, provision_state, op, node_address, poll>>

\* task.driver.boot.clean_up_ramdisk(task)
tear_down_cleaning_ramdisk ==
    /\ op = "tear_down_cleaning" /\ pc = "tear_down_cleaning_ramdisk"
    /\ cleaning_step("clean_up_ramdisk", None, "Exception",
                     Go("remove_cleaning_network"))
    /\ UNCHANGED <<conf, node, provision_state, op, node_address, poll>>

\* task.driver.network.remove_cleaning_network(task)
remove_cleaning_network ==
    /\ op = "tear_down_cleaning" /\ pc = "remove_cleaning_network"
    /\ cleaning_step("remove_cleaning_network", None, "NetworkError", Return(None))
    /\ UNCHANGED <<conf, node, provision_state, op, node_address, poll>>

\* --------------------------------------------------------- tear_down
\* the conductor deletes a deployed node
CallTearDown ==
    /\ pc = "idle"
    /\ provision_state \in {ACTIVE, DEPLOYFAIL, ERROR}
    /\ provision_state' = DELETING
    /\ Begin("tear_down", "tear_down")
    /\ UNCHANGED <<conf, node>>

\* tear_down: node_power_action(task, states.POWER_OFF)
tear_down ==
    /\ op = "tear_down" /\ pc = "tear_down"
    /\ cleaning_step("node_power_action", POWER_OFF, "PowerStateFailure",
                     Go("unconfigure_tenant_networks"))
    /\ UNCHANGED <<conf, node, provision_state, op, node_address, poll>>

\* (mutant) DELETED is returned though releasing the networks failed
unconfigure_failure_ignored ==
    /\ op = "tear_down" /\ pc = "unconfigure_tenant_networks"
    /\ \E ok \in BOOLEAN :
         trace' = (IF ok THEN Append(trace, Ev("unconfigure_tenant_networks", None))
                   ELSE trace \o <<Ev("unconfigure_tenant_networks", None),
                                   Raised("unconfigure_tenant_networks")>>)
    /\ Return(DELETED)
    /\ UNCHANGED <<conf, node, provision_state, op, node_address, poll>>

\* task.driver.network.unconfigure_tenant_networks(task); return states.DELETED
unconfigure_tenant_networks ==
    /\ op = "tear_down" /\ pc = "unconfigure_tenant_networks"
    /\ cleaning_step("unconfigure_tenant_networks", None, "NetworkError",
                     Return(DELETED))
    /\ UNCHANGED <<conf, node, provision_state, op, node_address, poll>>

\* -------------------------------------------------------------- spec
Next ==
    \/ CallDeploy
    \/ Heartbeat
    \/ CallContinueDeploy
    \/ CallPrepareCleaning
    \/ Finish
    \/ deploy
    \/ deploy_get_ip
    \/ _ansible_deploy
    \/ _ansible_deploy_running
    \/ deploy_except
    \/ continue_deploy
    \/ reboot_to_instance
    \/ reboot_and_finish_deploy
    \/ soft_power_off
    \/ shutdown_running
    \/ _wait_until_powered_off
    \/ retry_sleep
    \/ soft_power_off_except
    \/ oob_power_off_forced
    \/ remove_provisioning_network
    \/ configure_tenant_networks
    \/ power_on
    \/ reboot_except
    \/ process_event_done
    \/ clean_up_ramdisk
    \/ prepare_cleaning
    \/ add_cleaning_network
    \/ prepare_ramdisk
    \/ cleaning_reboot
    \/ cleaning_get_ip
    \/ cleaning_save_ip
    \/ cleaning_wait
    \/ cleaning_wait_running
    \/ CallExecuteCleanStep
    \/ execute_clean_step
    \/ execute_clean_step_run
    \/ execute_clean_step_running
    \/ cleaning_error_handler
    \/ CallTearDownCleaning
    \/ tear_down_cleaning
    \/ tear_down_cleaning_power_off
    \/ tear_down_cleaning_ramdisk
    \/ remove_cleaning_network
    \/ CallTearDown
    \/ tear_down
    \/ unconfigure_tenant_networks

Spec == Init /\ [][Next]_vars

\* the method runs in one thread that is never suspended for good
FairSpec == Spec /\ WF_vars(Next)

\* ------------------------------------------------- loading clean steps
\* interface filters and override mappings a caller passes
Interfaces == {None, "deploy", "raid"}
Priorities == {Nothing, Some(0), Some(5)}
Overrides == {EmptyDict} \cup {[erase_devices |-> p] : p \in Priorities}

\* one call of _get_clean_steps on the file as it is, remembered with the
\* call before it
Load(interface, override_priorities) ==
    /\ loads' = <<[interface |-> interface,
                   override_priorities |-> override_priorities,
                   result |-> _get_clean_steps(clean_steps_file, interface,
                                               override_priorities)]>>
                 \o SubSeq(loads, 1, IF loads = <<>> THEN 0 ELSE 1)
    /\ UNCHANGED <<use_ramdisk_callback, post_deploy_get_power_state_retries,
                   driver_info, clean_steps_file, parsed, node, provision_state, op,
                   pc, ret, exc, trace, node_address, poll>>

\* a caller of the module function
CallGetCleanSteps ==
    \E interface \in Interfaces, override_priorities \in Overrides :
        Load(interface, override_priorities)

\* AnsibleDeploy.get_clean_steps: the deploy interface's steps, with the two
\* priorities of [deploy] as overrides
get_clean_steps ==
    \E erase_devices_priority \in Priorities,
       erase_devices_metadata_priority \in {Some(5)} :
        Load("deploy",
             [erase_devices |-> erase_devices_priority,
              erase_devices_metadata |-> erase_devices_metadata_priority])

\* a node at rest and any of the clean-steps files
StepsInit ==
    /\ use_ramdisk_callback = FALSE
    /\ post_deploy_get_power_state_retries = 0
    /\ driver_info = EmptyDict
    /\ driver_internal_info = EmptyDict
    /\ saved_internal_info = EmptyDict
    /\ provision_state = AVAILABLE
    /\ op = "none"
    /\ pc = "idle"
    /\ ret = "none"
    /\ exc = "none"
    /\ trace = <<>>
    /\ node_address = NoAddress
    /\ attempt_number = 0
    /\ power_state_read = "none"
    /\ clean_steps_file \in StepsFiles
    /\ loads = <<>>
    /\ parsed = NotParsed

StepsNext ==
    \/ CallGetCleanSteps
    \/ get_clean_steps

StepsSpec == StepsInit /\ [][StepsNext]_vars

\* ------------------------------------------------ the parsing helpers
\* a call of a parsing helper, remembered with its argument and its outcome
Parse(call, arg, exception, result) ==
    /\ parsed' = [call |-> call, arg |-> arg, exc |-> exception, result |-> result]
    /\ UNCHANGED <<use_ramdisk_callback, post_deploy_get_power_state_retries,
                   driver_info, clean_steps_file, loads, node, provision_state, op,
                   pc, ret, exc, trace, node_address, poll>>

\* _parse_partitioning_info is called for a node's instance_info
parse_partitioning_info ==
    \E info \in InstanceInfos :
        Parse("_parse_partitioning_info", info, "none", _parse_partitioning_info(info))

\* _parse_root_device_hints is called for a node's properties
parse_root_device_hints ==
    \E root_device \in RootDevices :
        LET r == _parse_root_device_hints(root_device)
        IN  Parse("_parse_root_device_hints", root_device, r.exc,
                  [hints |-> r.hints, root_device_hints |-> r.root_device_hints])

\* a node at rest, no helper called yet
ParseInit ==
    /\ use_ramdisk_callback = FALSE
    /\ post_deploy_get_power_state_retries = 0
    /\ driver_info = EmptyDict
    /\ driver_internal_info = EmptyDict
    /\ saved_internal_info = EmptyDict
    /\ provision_state = AVAILABLE
    /\ op = "none"
    /\ pc = "idle"
    /\ ret = "none"
    /\ exc = "none"
    /\ trace = <<>>
    /\ node_address = NoAddress
    /\ attempt_number = 0
    /\ power_state_read = "none"
    /\ clean_steps_file = [readable |-> TRUE, steps |-> <<>>]
    /\ loads = <<>>
    /\ parsed = NotParsed

ParseNext ==
    \/ parse_partitioning_info
    \/ parse_root_device_hints

ParseSpec == ParseInit /\ [][ParseNext]_vars

\* ============================================================ claims
\* positions of the calls of c in the trace
Calls(c) == {i \in 1..Len(trace) : trace[i].call = c}
\* invocations of the tool, and those of them made by _ansible_deploy
ToolRuns == Calls("_run_playbook")
DeployRuns == {i \in ToolRuns : "image" \in DOMAIN trace[i].arg.extra_vars}
\* positions of a call with a given argument
CallsWith(c, a) == {i \in Calls(c) : trace[i].arg = a}
\* the exception recorded at position i comes out of call c
RaisedBy(i, where) == trace[i].call = "raise" /\ trace[i].arg = where
Elems(s) == {s[i] : i \in 1..Len(s)}
HostIp(i) == trace[i].arg.extra_vars.nodes[1].ip

\* the host part of each callback URL explored, written out by hand
UrlHost(url) ==
    CASE url = <<"h", ":", "/", "/", "a", ":", "9">> -> <<"a">>
      [] url = <<"h", ":", "/", "/", "b", "/", "v">> -> <<"b">>
      [] OTHER -> <<>>

\* C1: in callback mode deploy only reboots and returns DEPLOYWAIT (no address
\* lookup, no tool); a continue_deploy that returns has fired 'resume', taken
\* the address from the recorded callback URL, invoked the deploy playbook
\* exactly once and then run reboot_to_instance exactly once, in that order.
C1_AsyncDeploy ==
    /\ (op = "deploy" /\ use_ramdisk_callback) =>
          /\ ToolRuns = {} /\ Calls("get_ip_addresses") = {}
          /\ node_address = NoAddress
          /\ pc = "returned" =>
                /\ ret = DEPLOYWAIT
                /\ trace = <<Ev("node_power_action", REBOOT)>>
    /\ (op = "continue_deploy" /\ pc = "returned") =>
          /\ CallsWith("process_event", "resume") = {2}
          /\ Calls("get_ip_addresses") = {}
          /\ Cardinality(DeployRuns) = 1
          /\ Cardinality(Calls("node_set_boot_device")) = 1
          /\ Cardinality(Calls("clean_up_ramdisk")) = 1
          /\ \A i \in DeployRuns :
                /\ i > 2
                /\ trace[i + 1].call = "node_set_boot_device"
                /\ "agent_url" \in DOMAIN driver_internal_info =>
                      HostIp(i) = UrlHost(driver_internal_info["agent_url"])
          /\ trace[Len(trace)].call = "clean_up_ramdisk"
    /\ provision_state = DEPLOYWAIT => use_ramdisk_callback

C1_Witness ==
    /\ op = "continue_deploy" /\ pc = "returned"
    /\ "agent_url" \in DOMAIN driver_internal_info
    /\ \E i \in DeployRuns : HostIp(i) = <<"a">>

DhcpFailed == \E i \in 1..Len(trace) : RaisedBy(i, "_get_node_ip_dhcp")
AnsibleDeployFailed ==
    \E i \in 2..Len(trace) :
        \/ RaisedBy(i, "_prepare_variables")
        \/ RaisedBy(i, "_parse_ansible_driver_info") /\ trace[i - 1].call = "_prepare_variables"
        \/ RaisedBy(i, "_run_playbook") /\ (i - 1) \in DeployRuns
SyncDeployEnded == op = "deploy" /\ ~use_ramdisk_callback /\ pc \in {"returned", "raised"}
FailedStateNoLogs == CallsWith("set_failed_state", [collect_logs |-> FALSE])

\* C3 as stated: when a synchronous deploy ends after its address lookup,
\* variable assembly or tool invocation failed, the machine has been put into
\* the failed state without log collection, the tool was not invoked again,
\* reboot_to_instance did not run and DEPLOYDONE is not returned.
C3_AnyFailureSetsFailedState ==
    (SyncDeployEnded /\ (DhcpFailed \/ AnsibleDeployFailed)) =>
        /\ Cardinality(FailedStateNoLogs) = 1
        /\ Cardinality(ToolRuns) <= 1
        /\ Calls("node_set_boot_device") = {}
        /\ ret # DEPLOYDONE

\* C3 as amended: a failure of variable assembly or of the tool invocation puts
\* the machine into the failed state without log collection and deploy returns
\* None; a failure of the DHCP lookup leaves deploy as an exception, with no
\* failed-state transition made by deploy; in both cases the tool is not
\* invoked again, reboot_to_instance does not run, DEPLOYDONE is not returned.
C3_SyncDeployFailure ==
    /\ (SyncDeployEnded /\ AnsibleDeployFailed) =>
          /\ Cardinality(FailedStateNoLogs) = 1
          /\ Calls("set_failed_state") = {Len(trace)}
          /\ pc = "returned" /\ ret = None
          /\ provision_state = DEPLOYFAIL
    /\ (SyncDeployEnded /\ DhcpFailed) =>
          /\ Calls("set_failed_state") = {}
          /\ pc = "raised"
          /\ exc \in {"FailedToGetIPAddressOnPort", "InstanceDeployFailure"}
          /\ ToolRuns = {}
    /\ (op = "deploy" /\ ~use_ramdisk_callback /\ (DhcpFailed \/ AnsibleDeployFailed)) =>
          /\ Cardinality(ToolRuns) <= 1
          /\ Calls("node_set_boot_device") = {}
          /\ ret # DEPLOYDONE
          /\ pc \in {"returned", "raised", "deploy_except"}

C3_Witness ==
    /\ SyncDeployEnded
    /\ \E i \in DeployRuns : RaisedBy(i + 1, "_run_playbook")
    /\ FailedStateNoLogs # {}

\* the option deploy_forces_oob_reboot of the node, read off its value
OobForced ==
    /\ "deploy_forces_oob_reboot" \in DOMAIN driver_info
    /\ LET v == driver_info["deploy_forces_oob_reboot"]
       IN  \/ v.type = "bool" /\ v.val
           \/ v.type = "str" /\ v.val \in {"True", "true", "yes", "1", "on"}
\* reboot_and_finish_deploy has been entered (reboot_to_instance set the boot device)
BootAt == Calls("node_set_boot_device")
InReboot == BootAt # {} /\ \A i \in BootAt : ~(i < Len(trace) /\ trace[i + 1].call = "raise")
AfterBoot(S) == {i \in S : \E b \in BootAt : b < i}
ForcedOff == CallsWith("node_power_action", POWER_OFF)
PoweredOn == CallsWith("node_power_action", POWER_ON)
\* exceptions of the soft power-off path
SoftFailures ==
    {i \in 2..Len(trace) :
        \/ RaisedBy(i, "_get_node_ip")
        \/ RaisedBy(i, "_parse_ansible_driver_info") /\ trace[i - 1].call # "_prepare_variables"
        \/ RaisedBy(i, "_run_playbook") /\ (i - 1) \in (ToolRuns \ DeployRuns)
        \/ RaisedBy(i, "_wait_until_powered_off")}
\* the poller has seen the machine powered off
PolledOff == CallsWith("get_power_state", POWER_OFF)
\* exceptions of the calls of the outer try block
HardFailures ==
    {i \in 2..Len(trace) :
        /\ trace[i].call = "raise"
        /\ \/ (i - 1) \in ForcedOff
           \/ (i - 1) \in PoweredOn
           \/ trace[i - 1].call \in {"remove_provisioning_network",
                                     "configure_tenant_networks"}}

\* C4: with the out-of-band power-off not forced, a failure anywhere in the soft
\* path (address, playbook selection or run, polling budget) is not fatal: the
\* forced POWER_OFF is issued next, exactly once, and when it succeeds the
\* workflow goes on to remove_provisioning_network; a soft path that succeeds
\* issues no forced POWER_OFF.
C4_SoftFailureFallsBack ==
    (InReboot /\ op \in {"deploy", "continue_deploy"} /\ ~OobForced) =>
        /\ Cardinality(ForcedOff) <= 1
        /\ Cardinality(SoftFailures) <= 1
        /\ \A i \in SoftFailures :
              /\ pc # "reboot_except" \/ HardFailures # {}
              /\ IF i = Len(trace)
                 THEN pc = "soft_power_off_except" /\ ForcedOff = {}
                 ELSE /\ ForcedOff = {i + 1}
                      /\ (i + 1 = Len(trace)) => pc = "remove_provisioning_network"
                      /\ (i + 1 < Len(trace)) =>
                            trace[i + 2].call \in {"raise", "remove_provisioning_network"}
        /\ ForcedOff # {} => SoftFailures # {}
        /\ PolledOff # {} => (ForcedOff = {} /\ SoftFailures = {})
        /\ CallsWith("process_event", "done") # {} =>
              (PolledOff # {}) # (ForcedOff # {})

C4_Witness ==
    /\ ~OobForced /\ op = "continue_deploy"
    /\ \E i \in SoftFailures : RaisedBy(i, "_wait_until_powered_off")
    /\ CallsWith("process_event", "done") # {}

\* C5: if the forced power-off, remove_provisioning_network,
\* configure_tenant_networks or the final POWER_ON raises, the operation ends
\* with the deployment error, 'done' is never fired and the ramdisk cleanup of
\* reboot_to_instance is not requested; 'done' is fired only when POWER_ON
\* completed without error.
C5_RebootFailureIsFatal ==
    op \in {"deploy", "continue_deploy"} =>
        /\ HardFailures # {} =>
              /\ CallsWith("process_event", "done") = {}
              /\ Calls("clean_up_ramdisk") = {}
              /\ pc \in {"reboot_except", "raised"}
              /\ pc = "raised" =>
                    /\ exc = "InstanceDeployFailure"
                    /\ trace[Len(trace)].call = "log_and_raise_deployment_error"
                    /\ ret # DEPLOYDONE
              /\ \A i \in HardFailures : i = Len(trace) \/ i + 1 = Len(trace)
        /\ \A d \in CallsWith("process_event", "done") :
              /\ (d - 1) \in PoweredOn
              /\ Calls("log_and_raise_deployment_error") = {}
        /\ \A c \in Calls("clean_up_ramdisk") :
              (c - 1) \in CallsWith("process_event", "done")

C5_Witness ==
    /\ pc = "raised" /\ exc = "InstanceDeployFailure"
    /\ \E i \in HardFailures : trace[i - 1].call = "configure_tenant_networks"

\* C6: remove_provisioning_network, configure_tenant_networks and POWER_ON
\* happen in that order, each at most once, and the first of them directly
\* after power-off was settled: after a poll that read POWER_OFF or after a
\* forced POWER_OFF that completed.
C6_NetworksAfterPowerOff ==
    /\ Cardinality(Calls("remove_provisioning_network")) <= 1
    /\ Cardinality(Calls("configure_tenant_networks")) <= 1
    /\ Cardinality(PoweredOn) <= 1
    /\ \A i \in Calls("remove_provisioning_network") :
          /\ i > 1
          /\ (i - 1) \in PolledOff \/ (i - 1) \in ForcedOff
          /\ (i - 1) \in PolledOff => power_state_read = POWER_OFF
    /\ \A i \in Calls("configure_tenant_networks") :
          i > 1 /\ trace[i - 1].call = "remove_provisioning_network"
    /\ \A i \in PoweredOn :
          i > 1 /\ trace[i - 1].call = "configure_tenant_networks"
    /\ pc \in {"remove_provisioning_network", "configure_tenant_networks", "power_on"} =>
          (PolledOff # {} \/ ForcedOff # {})

C6_Witness ==
    /\ PoweredOn # {} /\ PolledOff # {}
    /\ Cardinality(Calls("get_power_state")) = 2

\* C7: when deploy_forces_oob_reboot is true, reboot_and_finish_deploy looks up
\* no address, runs no shutdown playbook and polls no power state, and issues
\* exactly one forced POWER_OFF before the networks are switched.
C7_ForcedOobPowerOff ==
    (OobForced /\ op \in {"deploy", "continue_deploy"}) =>
        /\ AfterBoot(Calls("get_ip_addresses")) = {}
        /\ AfterBoot(ToolRuns) = {}
        /\ ToolRuns \subseteq DeployRuns
        /\ Calls("get_power_state") = {} /\ Calls("sleep") = {}
        /\ attempt_number = 0 /\ power_state_read = "none"
        /\ pc \notin {"soft_power_off", "shutdown_running", "_wait_until_powered_off",
                      "retry_sleep", "soft_power_off_except"}
        /\ Cardinality(ForcedOff) <= 1
        /\ \A i \in Calls("remove_provisioning_network") : ForcedOff = {i - 1}
        /\ \A i \in ForcedOff : (i - 1) \in BootAt

C7_Witness ==
    /\ OobForced /\ op = "deploy"
    /\ CallsWith("process_event", "done") # {}
    /\ Cardinality(ForcedOff) = 1

Reads == Calls("get_power_state")
Sleeps == Calls("sleep")
Budget == post_deploy_get_power_state_retries + 1
Polling == pc \in {"_wait_until_powered_off", "retry_sleep"}
PollFailed == \E i \in 1..Len(trace) : RaisedBy(i, "_wait_until_powered_off")

PollCounts ==
    /\ Cardinality(Reads) = attempt_number
    /\ Cardinality(Reads) <= Budget
    /\ \A i \in Reads : trace[i].arg # POWER_OFF => (i = Len(trace) \/ trace[i + 1].call \in {"sleep", "raise"})
    /\ \A i \in Sleeps : (i - 1) \in Reads /\ ((i = Len(trace)) \/ (i + 1) \in Reads)
    /\ pc = "_wait_until_powered_off" => Cardinality(Sleeps) = Cardinality(Reads)
    /\ pc = "retry_sleep" =>
          /\ Cardinality(Sleeps) = Cardinality(Reads) - 1
          /\ Cardinality(Reads) < Budget
    \* success on read N: N reads, N - 1 sleeps, the first N - 1 reads not POWER_OFF
    /\ \A n \in PolledOff :
          /\ Cardinality(Reads) = attempt_number
          /\ Cardinality(Sleeps) = Cardinality(Reads) - 1
          /\ \A i \in Reads : i <= n /\ (i < n => trace[i].arg # POWER_OFF)
          /\ \A i \in Sleeps : i < n
          /\ ~PollFailed
    \* failure only with the budget used up: R + 1 reads, R sleeps, none POWER_OFF
    /\ PollFailed =>
          /\ Cardinality(Reads) = Budget
          /\ Cardinality(Sleeps) = post_deploy_get_power_state_retries
          /\ PolledOff = {}
    /\ (attempt_number = Budget /\ ~Polling) => (PollFailed \/ PolledOff # {})

\* C8: polling that reads POWER_OFF on call N (N within the budget) succeeds
\* after exactly N reads and N - 1 sleeps; polling that never reads POWER_OFF
\* fails only after exactly R + 1 reads; and polling always comes to an end.
C8_PollingBudget == []PollCounts /\ (Polling ~> ~Polling)

C8_Witness ==
    /\ post_deploy_get_power_state_retries = 2
    /\ PolledOff # {}
    /\ Cardinality(Reads) = 3 /\ Cardinality(Sleeps) = 2

\* C9 as stated: in callback mode with no agent_url recorded the address
\* resolution fails; the tool is never invoked for the empty address.
C9_NoUrlNoInvocation ==
    (op = "continue_deploy" /\ "agent_url" \notin DOMAIN driver_internal_info) =>
        /\ \A i \in ToolRuns : HostIp(i) # NoAddress
        /\ pc \notin {"_ansible_deploy", "_ansible_deploy_running"}

\* the DHCP lookups made, and what the tool was given after each
Lookups == Calls("get_ip_addresses")
LookupRaised(i) == RaisedBy(i, "_get_node_ip_dhcp") \/ RaisedBy(i, "_get_node_ip")
\* C10: the DHCP lookup yields an address only when exactly one is reported,
\* and then that one; with none or several it raises, picking none, and no
\* tool invocation follows it in the operation.
C10_DhcpSingleAddress ==
    (~use_ramdisk_callback /\ op \in {"deploy", "prepare_cleaning"}) =>
        /\ \A i \in Lookups :
              IF Len(trace[i].arg) = 1
              THEN /\ (i = Len(trace) \/ ~LookupRaised(i + 1))
                   /\ i = Len(trace) => node_address = trace[i].arg[1]
                   /\ \A j \in ToolRuns :
                         (j > i /\ ~\E k \in Lookups : i < k /\ k < j) =>
                              HostIp(j) = trace[i].arg[1]
              ELSE /\ i < Len(trace) /\ LookupRaised(i + 1)
                   /\ \A j \in ToolRuns : j < i
                   /\ (BootAt = {}) => (pc = "raised" /\ ToolRuns = {})
        /\ \A j \in ToolRuns :
              /\ \E i \in Lookups : i < j /\ Len(trace[i].arg) = 1
              /\ HostIp(j) \in Ips

C10_Witness ==
    /\ ~use_ramdisk_callback /\ op = "prepare_cleaning" /\ pc = "raised"
    /\ \E i \in Lookups : Len(trace[i].arg) = 2

\* ------------------------------------------- claims on the clean steps
\* the latest call of _get_clean_steps, made on a file that could be read
Loaded == loads # <<>> /\ clean_steps_file.readable
Doc == clean_steps_file.steps
Result == loads[1].result
\* what a declaration lacks, told from the declaration alone
LacksName(s) == "name" \notin DOMAIN s \/ s["name"] = ""
LacksInterface(s) == "interface" \notin DOMAIN s
LacksValue(s, a) ==
    /\ "args" \in DOMAIN s
    /\ a \in DOMAIN s["args"]
    /\ "required" \in DOMAIN s["args"][a]
    /\ s["args"][a]["required"]
    /\ "value" \notin DOMAIN s["args"][a]
Lacks(s, field) ==
    CASE field = "name" -> LacksName(s)
      [] field = "interface" -> LacksInterface(s)
      [] field = "tags.value" -> LacksValue(s, "tags")
Fields == {"name", "interface", "tags.value"}
Incomplete(s) == \E f \in Fields : Lacks(s, f)
\* the name a declaration is reported under
ShownName(s) == IF LacksName(s) THEN "undefined" ELSE s["name"]
ShownNames == {ShownName(s) : s \in StepDecls}
\* how often the error lists the pair (name, field)
Listed(n, f) ==
    Cardinality({k \in 1..Len(Result.missing) :
                    Result.missing[k] = [name |-> n, field |-> f]})
FailedMalformed == Result.exc = "NodeCleaningFailure" /\ Result.msg = Malformed(<<>>).msg

\* C11 (as stated): loading fails as malformed iff some step lacks a name, an
\* interface or a required argument's value, and the error then lists every
\* lacking field of every step, those of a step without a name included.
C11_EveryFieldOfEveryStep ==
    Loaded =>
        /\ FailedMalformed <=> \E i \in 1..Len(Doc) : Incomplete(Doc[i])
        /\ FailedMalformed =>
              \A n \in ShownNames, f \in Fields :
                  Listed(n, f) = Cardinality({i \in 1..Len(Doc) :
                                      ShownName(Doc[i]) = n /\ Lacks(Doc[i], f)})

\* C11 (amended): loading fails as malformed iff some step lacks a name, an
\* interface or a required argument's value; the error then lists one entry
\* (undefined, name) for each step without a name and nothing else of that
\* step, and every lacking interface and required value of each named step.
C11_EveryFieldOfNamedSteps ==
    Loaded =>
        /\ FailedMalformed <=> \E i \in 1..Len(Doc) : Incomplete(Doc[i])
        /\ FailedMalformed =>
              /\ \A n \in ShownNames, f \in Fields :
                    Listed(n, f) = Cardinality({i \in 1..Len(Doc) :
                                        /\ ShownName(Doc[i]) = n
                                        /\ Lacks(Doc[i], f)
                                        /\ (f = "name" \/ ~LacksName(Doc[i]))})
              /\ Result.steps = <<>>
        /\ ~FailedMalformed => Result.missing = <<>>

C11_Witness ==
    /\ Loaded /\ FailedMalformed
    /\ Len(Result.missing) = 3
    /\ \E i \in 1..Len(Doc) : LacksName(Doc[i]) /\ LacksInterface(Doc[i])
    /\ \E i \in 1..Len(Doc) : ~LacksName(Doc[i]) /\ LacksValue(Doc[i], "tags")

\* two steps of the document declare the same name
SharedName ==
    \E i, j \in 1..Len(Doc) :
        /\ i < j
        /\ ~LacksName(Doc[i]) /\ ~LacksName(Doc[j])
        /\ Doc[i]["name"] = Doc[j]["name"]
WellFormed == \A i \in 1..Len(Doc) : ~Incomplete(Doc[i])
FailedNotUnique ==
    /\ Result.exc = "NodeCleaningFailure"
    /\ Result.msg = "Cleaning steps do not have unique names."
    /\ Result.steps = <<>>

\* C12: a document whose steps are all complete and in which two steps share
\* a name fails to load with the names-not-unique error, whatever interfaces
\* the two steps declare and whatever interface filter the load is given.
C12_DuplicateNamesFail ==
    (Loaded /\ WellFormed /\ SharedName) => FailedNotUnique

C12_Witness ==
    /\ Loaded /\ WellFormed /\ FailedNotUnique
    /\ loads[1].interface = "deploy"
    /\ \E i, j \in 1..Len(Doc) :
          /\ Doc[i]["name"] = Doc[j]["name"]
          /\ Doc[i]["interface"] = "deploy"
          /\ Doc[j]["interface"] = "raid"

\* the declaration a returned step was built from
Declared(name) == CHOOSE d \in Elems(Doc) : ~LacksName(d) /\ d["name"] = name
\* the override a mapping supplies for a name, if it supplies one
Supplies(override, name) == name \in DOMAIN override /\ override[name].some
\* the calls remembered that returned steps
Succeeded == {k \in 1..Len(loads) : loads[k].result.exc = "none"}

\* C13: every step a load returns has the priority its own override mapping
\* supplies for the step's name (0 included), else the declared priority,
\* else 0; this holds for each of two successive loads of the same file.
C13_PriorityResolution ==
    \A k \in Succeeded :
        \A n \in 1..Len(loads[k].result.steps) :
            LET step == loads[k].result.steps[n]
                override == loads[k].override_priorities
            IN step.priority =
                 IF Supplies(override, step.step) THEN override[step.step].val
                 ELSE IF "priority" \in DOMAIN Declared(step.step)
                 THEN Declared(step.step)["priority"]
                 ELSE 0

C13_Witness ==
    /\ Succeeded = {1, 2}
    /\ Supplies(loads[1].override_priorities, "erase_devices")
    /\ loads[1].override_priorities["erase_devices"].val = 0
    /\ Supplies(loads[2].override_priorities, "erase_devices")
    /\ loads[2].override_priorities["erase_devices"].val = 5
    /\ \E n \in 1..Len(loads[1].result.steps) :
          /\ loads[1].result.steps[n].step = "erase_devices"
          /\ loads[1].result.steps[n].priority = 0
          /\ Declared("erase_devices")["priority"] = 10
    /\ \E n \in 1..Len(loads[2].result.steps) :
          /\ loads[2].result.steps[n].step = "erase_devices"
          /\ loads[2].result.steps[n].priority = 5
    /\ \E n \in 1..Len(loads[1].result.steps) :
          /\ loads[1].result.steps[n].step = "zap"
          /\ loads[1].result.steps[n].priority = 0

\* the steps of a result that belong to an interface, in the result's order
Restricted(steps, interface) == SelectSeq(steps, LAMBDA st : st.interface = interface)
\* pairs of remembered calls: a filtered one and an unfiltered one given the
\* same override mapping
FilteredAndNot ==
    {<<k, j>> \in (1..Len(loads)) \X (1..Len(loads)) :
        /\ loads[k].interface # None
        /\ loads[j].interface = None
        /\ loads[k].override_priorities = loads[j].override_priorities}

\* C14: the interface filter has no part in validation: a load succeeds iff
\* every step of the file is complete and no two share a name, whatever the
\* filter; a filtered load succeeds iff the unfiltered one does, and then
\* returns the unfiltered result's steps of that interface, in their order.
C14_FilterAfterValidation ==
    /\ Loaded => \A k \in 1..Len(loads) :
                    (loads[k].result.exc = "none") <=> (WellFormed /\ ~SharedName)
    /\ \A p \in FilteredAndNot :
          LET filtered == loads[p[1]]
              unfiltered == loads[p[2]]
          IN /\ (filtered.result.exc = "none") <=> (unfiltered.result.exc = "none")
             /\ filtered.result.exc = "none" =>
                   filtered.result.steps =
                       Restricted(unfiltered.result.steps, filtered.interface)
             /\ filtered.result.exc # "none" =>
                   /\ filtered.result = unfiltered.result
                   /\ filtered.result.steps = <<>>

C14_Witness ==
    /\ <<1, 2>> \in FilteredAndNot
    /\ loads[1].interface = "deploy"
    /\ loads[1].result.exc = "none"
    /\ Len(loads[2].result.steps) = 2
    /\ Len(loads[1].result.steps) = 1
    /\ loads[2].result.steps[1].interface = "raid"

\* ------------------------------------------------ claims on cleaning
\* the tool is running: it has been invoked and has not ended
ToolRunning == pc \in {"_ansible_deploy_running", "shutdown_running",
                       "cleaning_wait_running", "execute_clean_step_running"}

\* C15: in synchronous mode prepare_cleaning adds the cleaning network,
\* prepares the ramdisk, reboots, looks the address up by DHCP, records it as
\* ansible_cleaning_ip and saves the node, and only then invokes the tool,
\* once, with the single tag wait; while the tool runs the saved record holds
\* the address the tool was given.
C15_SyncPrepareCleaning ==
    (op = "prepare_cleaning" /\ ~use_ramdisk_callback) =>
        /\ Cardinality(ToolRuns) <= 1
        /\ Calls("set_node_cleaning_steps") = {}
        /\ \A j \in ToolRuns :
              /\ j = 6
              /\ trace[1].call = "add_cleaning_network"
              /\ trace[2].call = "prepare_ramdisk"
              /\ trace[3] = Ev("node_power_action", REBOOT)
              /\ trace[4].call = "get_ip_addresses"
              /\ trace[5].call = "node.save"
              /\ trace[4].arg = <<HostIp(j)>>
              /\ trace[j].arg.tags = <<"wait">>
              /\ trace[j].arg.notags = <<>>
              /\ "ansible_cleaning_ip" \in DOMAIN saved_internal_info
              /\ saved_internal_info["ansible_cleaning_ip"] = HostIp(j)
              /\ saved_internal_info = driver_internal_info
        /\ ToolRunning => ToolRuns = {Len(trace)}
        /\ (pc = "returned") => (Cardinality(ToolRuns) = 1 /\ ret = None)

C15_Witness ==
    /\ op = "prepare_cleaning" /\ ~use_ramdisk_callback
    /\ pc = "cleaning_wait_running"
    /\ saved_internal_info["ansible_cleaning_ip"] = <<"a">>

\* the names of the calls made so far, in order
CallNames == [i \in 1..Len(trace) |-> trace[i].call]

\* C16: in callback mode prepare_cleaning first has the clean-step plan
\* computed and stored; with an empty plan it returns at once, having added
\* no cleaning network, prepared no ramdisk and issued no power action; with
\* a non-empty plan it adds the cleaning network, prepares the ramdisk,
\* reboots and returns CLEANWAIT; it looks up no address and never invokes
\* the tool.
C16_CallbackPrepareCleaning ==
    (op = "prepare_cleaning" /\ use_ramdisk_callback /\ pc # "prepare_cleaning") =>
        /\ trace[1].call = "set_node_cleaning_steps"
        /\ "clean_steps" \in DOMAIN saved_internal_info
        /\ Len(saved_internal_info["clean_steps"]) = trace[1].arg
        /\ Lookups = {} /\ ToolRuns = {} /\ node_address = NoAddress
        /\ IF saved_internal_info["clean_steps"] = <<>>
           THEN /\ CallNames = <<"set_node_cleaning_steps">>
                /\ pc = "returned" /\ ret = None
           ELSE /\ Len(trace) >= 2 => trace[2].call = "add_cleaning_network"
                /\ Len(trace) >= 3 => trace[3].call \in {"prepare_ramdisk", "raise"}
                /\ Len(trace) >= 4 =>
                      \/ trace[4] = Ev("node_power_action", REBOOT)
                      \/ trace[4].call = "raise" /\ trace[3].call = "prepare_ramdisk"
                /\ Len(trace) >= 5 => (Len(trace) = 5 /\ trace[5].call = "raise")
                /\ pc = "returned" <=>
                      CallNames = <<"set_node_cleaning_steps", "add_cleaning_network",
                                    "prepare_ramdisk", "node_power_action">>
                /\ pc = "returned" => ret = CLEANWAIT
                /\ pc \in {"returned", "raised", "add_cleaning_network",
                            "prepare_ramdisk", "cleaning_reboot"}

C16_Witness ==
    /\ op = "prepare_cleaning" /\ use_ramdisk_callback
    /\ pc = "returned" /\ ret = CLEANWAIT
    /\ Len(trace) = 4

\* the calls of the cleaning-error handler, and the invocations that failed
Handled == Calls("cleaning_error_handler")
FailedRuns == {i \in ToolRuns : i < Len(trace) /\ RaisedBy(i + 1, "_run_playbook")}
Ended == pc \in {"returned", "raised"}

\* C17: execute_clean_step invokes the tool once, with the tags the step
\* declares; when the invocation fails the cleaning-error handler is called
\* once with the failure text and the tool is not invoked again; when it
\* succeeds the handler is not called and the provisioning state is left as
\* it was.
C17_OneRunThenHandler ==
    op = "execute_clean_step" =>
        /\ Cardinality(ToolRuns) <= 1
        /\ pc = "returned" => Cardinality(ToolRuns) = 1
        /\ \A i \in ToolRuns :
              /\ trace[i].arg.tags = Get(trace[1].arg.args, "tags", <<>>)
              /\ trace[i].arg.notags = <<>>
        /\ Cardinality(Handled) <= 1
        /\ \A h \in Handled :
              /\ h = Len(trace) /\ (h - 2) \in FailedRuns
              /\ trace[h].arg = "InstanceDeployFailure"
        /\ (Ended /\ FailedRuns # {}) => Cardinality(Handled) = 1
        /\ FailedRuns = {} =>
              /\ Handled = {}
              /\ provision_state \in {CLEANING, CLEANWAIT}

\* a cleaning address is recorded in the node's scratch space
Recorded == "ansible_cleaning_ip" \in DOMAIN driver_internal_info

\* C18: execute_clean_step gives the tool the recorded ansible_cleaning_ip in
\* synchronous mode, without any lookup; in callback mode it gives the host of
\* the agent URL, whether or not an ansible_cleaning_ip is recorded; in
\* synchronous mode with none recorded it makes one DHCP lookup and gives the
\* single address that reported.
C18_CleanStepAddress ==
    op = "execute_clean_step" =>
        /\ \A j \in ToolRuns :
              IF use_ramdisk_callback
              THEN /\ HostIp(j) = UrlHost(Get(driver_internal_info, "agent_url", <<>>))
                   /\ Lookups = {}
              ELSE IF Recorded
              THEN /\ HostIp(j) = driver_internal_info["ansible_cleaning_ip"]
                   /\ Lookups = {}
              ELSE /\ Lookups = {j - 1}
                   /\ trace[j - 1].arg = <<HostIp(j)>>
                   /\ HostIp(j) \in Ips
        /\ \A i \in Lookups : ~use_ramdisk_callback /\ ~Recorded
        /\ saved_internal_info = driver_internal_info

C18_Witness ==
    /\ op = "execute_clean_step" /\ use_ramdisk_callback /\ Recorded
    /\ \E j \in ToolRuns :
          /\ HostIp(j) = <<"a">>
          /\ driver_internal_info["ansible_cleaning_ip"] = <<"b">>

\* C19: tear_down_cleaning first takes ansible_cleaning_ip out of the scratch
\* space and saves the node, also when none was recorded; then it powers the
\* node off, has the ramdisk cleaned up and the cleaning network removed, in
\* this order; from the save on, the saved record holds no cleaning address,
\* whichever of the later calls fails.
C19_TearDownCleaning ==
    (op = "tear_down_cleaning" /\ pc # "tear_down_cleaning") =>
        /\ trace[1].call = "node.save"
        /\ "ansible_cleaning_ip" \notin DOMAIN saved_internal_info
        /\ saved_internal_info = driver_internal_info
        /\ Len(trace) >= 2 => trace[2] = Ev("node_power_action", POWER_OFF)
        /\ Len(trace) >= 3 => trace[3].call \in {"clean_up_ramdisk", "raise"}
        /\ Len(trace) >= 4 =>
              \/ trace[4].call = "remove_cleaning_network"
                   /\ trace[3].call = "clean_up_ramdisk"
              \/ trace[4].call = "raise" /\ trace[3].call = "clean_up_ramdisk"
        /\ Len(trace) >= 5 => (Len(trace) = 5 /\ trace[5].call = "raise")
        /\ Lookups = {} /\ ToolRuns = {}
        /\ pc = "raised" <=> trace[Len(trace)].call = "raise"
        /\ pc = "returned" <=>
              CallNames = <<"node.save", "node_power_action", "clean_up_ramdisk",
                            "remove_cleaning_network">>
        /\ pc = "returned" => ret = None

C19_Witness ==
    /\ op = "tear_down_cleaning" /\ pc = "raised"
    /\ CallNames = <<"node.save", "node_power_action", "raise">>
    /\ "ansible_cleaning_ip" \notin DOMAIN saved_internal_info

\* what tear_down has done at each point of its run
TearDownCalls ==
    (op = "tear_down" /\ pc # "tear_down") =>
        /\ trace[1] = Ev("node_power_action", POWER_OFF)
        /\ Len(trace) >= 2 => trace[2].call \in {"unconfigure_tenant_networks", "raise"}
        /\ Len(trace) >= 3 => (Len(trace) = 3 /\ trace[3].call = "raise"
                                 /\ trace[2].call = "unconfigure_tenant_networks")
        /\ Lookups = {} /\ ToolRuns = {} /\ node_address = NoAddress
        /\ pc = "raised" <=> trace[Len(trace)].call = "raise"
        /\ pc = "returned" <=>
              CallNames = <<"node_power_action", "unconfigure_tenant_networks">>
        /\ pc = "returned" => ret = DELETED
        /\ ret = DELETED => (pc = "returned" /\ Calls("raise") = {})
\* a step of tear_down leaves the scratch space, in memory and saved, as it is
TearDownKeepsScratch ==
    (op = "tear_down" /\ op' = "tear_down") =>
        UNCHANGED <<driver_internal_info, saved_internal_info>>

\* C20: tear_down issues POWER_OFF, then has the tenant networks
\* unconfigured, then returns DELETED, and returns it only when both calls
\* completed without an error; it looks up no address, never invokes the tool
\* and leaves the scratch space unchanged.
C20_TearDown == []TearDownCalls /\ [][TearDownKeepsScratch]_vars

C20_Witness ==
    /\ op = "tear_down" /\ pc = "returned" /\ ret = DELETED
    /\ Len(trace) = 2

\* ---------------------------------------- claims on the parsing helpers
\* the partition plan of the latest call, and the place of each kind in it
Plan == parsed.result.partition_info.partitions
Rank(name) ==
    CASE name = "bios" -> 0
      [] name = "ephemeral" -> 1
      [] name = "swap" -> 2
      [] name = "configdrive" -> 3
      [] name = "root" -> 4
Named(name) == {i \in 1..Len(Plan) : Plan[i].name = name}

\* C21: every partition plan ends with the root partition; under gpt its
\* first entry is the 1 MiB bios_grub partition and root has no flags; under
\* msdos, also when no label is set, there is no bios partition and root has
\* the boot flag; ephemeral, swap and configdrive stand between them in this
\* order, each exactly when its size is not zero or its payload is set.
C21_PartitionPlan ==
    parsed.call = "_parse_partitioning_info" =>
        LET info == parsed.arg
            root == Plan[Len(Plan)]
        IN /\ Named("root") = {Len(Plan)}
           /\ root.size = info.root_mb /\ root.unit = "MiB"
           /\ \A i, j \in 1..Len(Plan) : i < j => Rank(Plan[i].name) < Rank(Plan[j].name)
           /\ IF info.disk_label = "gpt"
              THEN /\ Plan[1] = [name |-> "bios", size |-> 1, unit |-> "MiB",
                                 flags |-> [bios_grub |-> "yes"]]
                   /\ "flags" \notin DOMAIN root
                   /\ parsed.result.partition_info.label = "gpt"
              ELSE /\ Named("bios") = {}
                   /\ "flags" \in DOMAIN root /\ root.flags = [boot |-> "yes"]
                   /\ parsed.result.partition_info.label = "msdos"
           /\ Named("ephemeral") # {} <=> info.ephemeral_mb > 0
           /\ Named("swap") # {} <=> info.swap_mb > 0
           /\ Named("configdrive") # {} <=> info.configdrive = "payload"
           /\ \A i \in Named("ephemeral") : Plan[i].size = info.ephemeral_mb
           /\ \A i \in Named("swap") : Plan[i].size = info.swap_mb

C21_Witness ==
    /\ parsed.call = "_parse_partitioning_info"
    /\ parsed.arg.disk_label = "gpt"
    /\ Len(Plan) = 5

\* ------------------------------------------ claims on every operation
\* the DHCP lookup an invocation at position j follows most closely
LookupBefore(j) == {i \in Lookups : i < j /\ \A k \in Lookups : k < j => k <= i}
\* the address the operation resolved for the invocation at position j
ResolvedFor(j) ==
    IF use_ramdisk_callback
    THEN UrlHost(Get(driver_internal_info, "agent_url", <<>>))
    ELSE IF op = "execute_clean_step" /\ Recorded
    THEN driver_internal_info["ansible_cleaning_ip"]
    ELSE LET i == CHOOSE i \in LookupBefore(j) : TRUE IN trace[i].arg[1]

\* C22: every invocation of the tool, in any operation, is given a variable
\* tree whose nodes list holds exactly one host: its name is the node's uuid
\* and its ip is the address the same operation resolved (the recorded
\* cleaning address, the host of the agent URL, or the single address of the
\* DHCP lookup made last before the invocation).
C22_OneHostPerInvocation ==
    \A j \in ToolRuns :
        LET nodes == trace[j].arg.extra_vars.nodes IN
        /\ Len(nodes) = 1
        /\ nodes[1].name = NodeUuid
        /\ nodes[1].extra = NodeExtra
        /\ (~use_ramdisk_callback /\ ~(op = "execute_clean_step" /\ Recorded)) =>
              /\ LookupBefore(j) # {}
              /\ \A i \in LookupBefore(j) : Len(trace[i].arg) = 1
        /\ nodes[1].ip = ResolvedFor(j)
        /\ op \in {"deploy", "continue_deploy", "prepare_cleaning", "execute_clean_step"}

C22_Witness ==
    /\ ~use_ramdisk_callback /\ op = "deploy"
    /\ \E i, j \in ToolRuns :
          i < j /\ HostIp(i) = <<"a">> /\ HostIp(j) = <<"b">>

\* the errors utils.execute raises by itself
RawErrors == ToolOutcomes \ {"ok"}

\* C23: whenever an invocation of the tool fails, what leaves _run_playbook is
\* InstanceDeployFailure: no operation ever holds a raw error of the
\* subprocess call.
C23_FailuresTranslated ==
    /\ exc \notin RawErrors
    /\ (/\ trace # <<>>
        /\ RaisedBy(Len(trace), "_run_playbook")
        /\ pc \in {"raised", "deploy_except", "cleaning_error_handler"}) =>
            exc = "InstanceDeployFailure"

\* ---------------------------------------------------------------- C24
\* the operator a hint string opens with: the text before its first blank
Sigil(value) == SubSeq(value, 1, FindFrom(value, {" "}, 1) - 1)
\* the text after the operator and its blank
Operand(value) == SubSeq(value, FindFrom(value, {" "}, 1) + 1, Len(value))

\* the decimal digits that write a natural number
DigitOf(d) ==
    CASE d = 0 -> "0" [] d = 1 -> "1" [] d = 2 -> "2" [] d = 3 -> "3" [] d = 4 -> "4"
      [] d = 5 -> "5" [] d = 6 -> "6" [] d = 7 -> "7" [] d = 8 -> "8" [] d = 9 -> "9"
RECURSIVE Decimal(_)
Decimal(n) == IF n < 10 THEN <<DigitOf(n)>> ELSE Decimal(n \div 10) \o <<DigitOf(n % 10)>>

\* percent-encoding of a text: a blank is %20 and a percent sign is %25
RECURSIVE Quoted(_)
Quoted(text) ==
    IF text = <<>> THEN <<>>
    ELSE (CASE text[1] = " " -> <<"%", "2", "0">>
            [] text[1] = "%" -> <<"%", "2", "5">>
            [] OTHER -> <<text[1]>>) \o Quoted(SubSeq(text, 2, Len(text)))

\* the string hints written with an operator other than == and s==
OtherOperators(hints) ==
    {h \in DOMAIN hints :
        hints[h].type = "str" /\ Sigil(hints[h].val) \notin {<<"=", "=">>, <<"s", "=", "=">>}}

\* one hint is translated as its operator asks
HintTranslated(given, got) ==
    IF given.type # "str" THEN got = given
    ELSE IF Sigil(given.val) = <<"=", "=">>
    THEN got.type = "int" /\ Decimal(got.val) = Operand(given.val)
    ELSE got.type = "str" /\ Quoted(got.val) = Operand(given.val)

\* C24: a translation of root-device hints either fails with the unsupported-hint
\* error that names every hint written with another operator, returning no
\* mapping, or - when no hint is written so - returns for every hint its
\* translation: the integer of an == hint, the percent-decoded text of an s==
\* hint, the value itself when it is not a string.
C24_HintsTranslated ==
    (parsed.call = "_parse_root_device_hints" /\ parsed.arg.kind = "hints") =>
        LET hints == parsed.arg.parsed
            mapping == parsed.result.root_device_hints
        IN  IF OtherOperators(hints) # {}
            THEN /\ parsed.exc = "InvalidParameterValue"
                 /\ parsed.result.hints = OtherOperators(hints)
                 /\ mapping = EmptyDict
            ELSE /\ parsed.exc = "none"
                 /\ DOMAIN mapping = DOMAIN hints
                 /\ \A h \in DOMAIN hints : HintTranslated(hints[h], mapping[h])

\* ---------------------------------------------------------------- C25
\* the steps of _ansible_deploy an exception comes out of
AssemblySteps == {"_get_node_ip_heartbeat", "_prepare_variables",
                  "_parse_ansible_driver_info", "_run_playbook"}
\* the calls reboot_to_instance makes
RebootCalls == {"node_set_boot_device", "node_power_action", "get_power_state",
                "get_ip_addresses", "remove_provisioning_network",
                "configure_tenant_networks", "clean_up_ramdisk",
                "log_and_raise_deployment_error"}
\* positions where continue_deploy's _ansible_deploy failed: an exception of one
\* of its steps, recorded before any boot-device change
DeployStepFailed ==
    {i \in Calls("raise") :
        /\ op = "continue_deploy"
        /\ trace[i].arg \in AssemblySteps
        /\ \A j \in 1..(i - 1) : trace[j].call # "node_set_boot_device"}

\* C25: when a step of _ansible_deploy fails inside continue_deploy, the
\* exception leaves continue_deploy as it is, after the 'resume' event: nothing
\* follows it, no call of reboot_to_instance is made (no boot device, power or
\* network call), no 'done' event is fired, the failed state is not set and the
\* node is still in the state 'resume' put it in.
C25_FailurePropagates ==
    \A i \in DeployStepFailed :
        /\ pc = "raised" /\ exc # "none"
        /\ Len(trace) = i
        /\ \E j \in 1..(i - 1) : trace[j] = Ev("process_event", "resume")
        /\ \A j \in 1..Len(trace) : trace[j].call \notin RebootCalls
        /\ CallsWith("process_event", "done") = {}
        /\ Calls("set_failed_state") = {}
        /\ provision_state = DEPLOYING

\* the deploy playbook has failed inside continue_deploy
C25_Witness ==
    /\ DeployStepFailed # {}
    /\ trace[Len(trace)] = Raised("_run_playbook")
    /\ ToolRuns # {}

\* ---------------------------------------------------------------- C26
\* what a copy of the scratch space holds under ansible_cleaning_ip: nothing or
\* one address
CleaningIp(dii) ==
    IF "ansible_cleaning_ip" \in DOMAIN dii THEN <<dii["ansible_cleaning_ip"]>> ELSE <<>>

\* the DHCP lookups of the running call that reported exactly one address
GoodLookups == {i \in Calls("get_ip_addresses") : Len(trace[i].arg) = 1}

\* one step of the program seen from a copy of the scratch space
CleaningIpStep(before, after) ==
    /\ CleaningIp(after) # CleaningIp(before) =>
         \/ /\ CleaningIp(after) # <<>>
            /\ op = "prepare_cleaning" /\ ~use_ramdisk_callback
            /\ \E i \in GoodLookups : CleaningIp(after) = <<trace[i].arg[1]>>
            /\ \A i \in Calls("raise") : trace[i].arg # "_get_node_ip_dhcp"
         \/ /\ CleaningIp(after) = <<>>
            /\ op = "tear_down_cleaning"
    /\ op = "execute_clean_step" => CleaningIp(after) = CleaningIp(before)
    /\ (op = "prepare_cleaning" /\ use_ramdisk_callback) =>
         CleaningIp(after) = CleaningIp(before)
    /\ (op = "prepare_cleaning" /\ Raised("_get_node_ip_dhcp") \in Elems(trace')) =>
         CleaningIp(after) = CleaningIp(before)

\* C26: ansible_cleaning_ip changes in two kinds of step only: a synchronous
\* prepare_cleaning whose DHCP lookup reported one address writes that address,
\* and tear_down_cleaning removes the key. No step of execute_clean_step, of a
\* callback-mode prepare_cleaning or of a prepare_cleaning whose lookup failed
\* changes it, so an earlier value stays. This holds for the node object and
\* for its saved copy.
C26_CleaningIpWriters ==
    [][/\ CleaningIpStep(driver_internal_info, driver_internal_info')
       /\ CleaningIpStep(saved_internal_info, saved_internal_info')]_vars

\* a synchronous prepare_cleaning has just written and saved the address it
\* looked up
C26_Witness ==
    /\ op = "prepare_cleaning" /\ pc = "cleaning_wait" /\ ~use_ramdisk_callback
    /\ GoodLookups # {}
    /\ CleaningIp(driver_internal_info) = <<node_address>>
    /\ CleaningIp(saved_internal_info) = <<node_address>>

====
